---- MODULE Spec2Model ----
(***************************************************************************)
(* A model of the yahooFinance time-series analysis engine:                *)
(*   - tradingSystem.__calculation__ (portfolio/strategy.py), one row of   *)
(*     the position / equity / debt state machine, stepped statement by    *)
(*     statement so that the order inside a row is observable;             *)
(*   - timeSeriesAnalysis.run (timeseries.py) over a tree of indicator     *)
(*     instances, with the csv files the instances store to and read from; *)
(*   - the recurrences of the price indicators (price.py).                 *)
(* Python floats are modelled as exact rationals <<numerator, denominator>>*)
(* in lowest terms; python lists are sequences read through PyIndex, which *)
(* keeps python's 0-based and negative indexing.                           *)
(***************************************************************************)
EXTENDS Integers, Sequences, FiniteSets, TLC

(***************************************************************************)
(* Bounds of the model.                                                    *)
(***************************************************************************)
\* number of rows of the price series given to a trading system
NRows == 4
\* closing prices are drawn from 1..MaxClose
MaxClose == 3
\* largest warm-up offset tried for a trading system other than Hold
MaxOffset == 2
\* a second, small starting equity besides the default one
SmallEquity == 1

\* largest number of rows of the price series given to an indicator tree
NPrice == 6
\* largest number of rows of the price series given to a single indicator
NSingle == 5
\* highest closing price of a series given to an indicator
MaxPrice == 3
\* largest lookback window, and largest number of windows of one instance
MaxLookback == 3
MaxSlots == 2

(***************************************************************************)
(* Program constants.                                                      *)
(***************************************************************************)
\* tradingSystem.__init__(..., equity=100.0)
DefaultEquity == 100
\* exponentialWeighting.__initialAnalysisPeriod__ returns 5
SeedLength == 5
\* MA.__init__: self.__sum__ = -999.0; MMAX.__init__: self.__extreme__ = -999.0
Unset == -999

(***************************************************************************)
(* Rational arithmetic (python float arithmetic, taken as exact).          *)
(***************************************************************************)
Abs(x) == IF x < 0 THEN -x ELSE x

RECURSIVE GCD(_, _)
GCD(a, b) == IF b = 0 THEN a ELSE GCD(b, a % b)

Rat(n, d) ==
    LET s == IF d < 0 THEN -1 ELSE 1
        g == GCD(Abs(n), Abs(d))
    IN  <<(s * n) \div g, (s * d) \div g>>

RInt(n) == <<n, 1>>
RZero == <<0, 1>>
RAdd(p, q) ==
    LET g == GCD(p[2], q[2])
    IN  Rat(p[1] * (q[2] \div g) + q[1] * (p[2] \div g), p[2] * (q[2] \div g))
RSub(p, q) ==
    LET g == GCD(p[2], q[2])
    IN  Rat(p[1] * (q[2] \div g) - q[1] * (p[2] \div g), p[2] * (q[2] \div g))
RMul(p, q) == Rat(p[1] * q[1], p[2] * q[2])
RDiv(p, q) == Rat(p[1] * q[2], p[2] * q[1])
RNeg(p) == <<-p[1], p[2]>>
RLt(p, q) == p[1] * q[2] < q[1] * p[2]
RAbs(p) == <<Abs(p[1]), p[2]>>

(***************************************************************************)
(* Python list indexing: s[k] with k counted from 0, negative k counted    *)
(* from the end.  Only used where the index is in range.                   *)
(***************************************************************************)
PyIndex(s, k) == IF k >= 0 THEN s[k + 1] ELSE s[Len(s) + k + 1]

VARIABLES
    \* ---- trading system (portfolio/strategy.py) ----
    variant,        \* which tradingSystem class the instance is
    closes,         \* data[input_data.name]["Close"], oldest first
    offset,         \* __initialAnalysisPeriod__(0) of the instance
    init_equity,    \* self.init_equity
    equity,         \* self.equity
    debt,           \* self.debt
    position,       \* self.__position__
    stop,           \* self.__stop__
    row,            \* the row argument of the __calculation__ in progress
    pc,             \* the statement of __calculation__ about to execute
    atRowStart,     \* position, equity and debt when the current row began
    updated,        \* equity right after the return update of the current row
    afterExit,      \* position right after the exit block of the current row
    results,        \* the rows returned so far: <<position, equity, debt>>
    \* ---- indicator tree (timeseries.py, price.py, csvdataset.py) ----
    top,            \* the class of the instance run() is called on
    lookback_days,  \* its lookback_days, handed down to every preliminary
    price,          \* input_data.__getCsvData__(): the price columns
    inst,           \* per instance of the tree: its attributes
    stack,          \* the run() calls in progress, innermost last
    files,          \* the csv files of the analysis directory, by name
    status,         \* "running", "finished", or the exception that ended run()
    runs,           \* per instance: the number of run() calls begun on it
    written,        \* per instance: the file its run() wrote before returning
    stores,         \* per file name: the number of times it was written
    \* ---- Drawdowns (returns.py) ----
    input_equity,   \* data[input_data.name]["Equity"], oldest first
    peak,           \* self.__peak__
    dd_row,         \* the row argument of the next __calculation__
    dd_status,      \* "running", "finished", or the exception that ended run()
    drawdowns,      \* the rows returned so far: <<Equity, Peak, Drawdown>>
    \* ---- strategyAnalysis (strategy.py) ----
    binning,        \* self.binning
    strategy_period,\* self.strategy.analysis_period: <<first day, last day>>
    low_bin_edges,  \* self.low_bin_edges
    strategy_dates, \* the Date column of the output of the strategy
    strategy_offset,\* self.strategy.__initialAnalysisPeriod__()
    sa_input,       \* input: per dataset its Date column; None before it is read
    bin,            \* the i of the loop over the bins
    call,           \* the number of __rowAtDate__ calls finished for this bin
    lower,          \* lower of the __rowAtDate__ call in progress
    upper,          \* upper of the __rowAtDate__ call in progress
    row_limits,     \* the rows returned by the calls finished for this bin
    sa_output,      \* output: per bin the cells of its ratio columns
    sa_pc,          \* the statement of run() about to execute
    sa_status,      \* "built", "running", "finished", or the exception raised
    \* ---- the analysis period (timeseries.py) ----
    requested_period, \* the analysis_period argument of __init__
    stored_dates,   \* the Date column of the file of input_data, oldest first
    clamped_period, \* self.analysis_period
    pruned_dates,   \* the Date column __pruneData__ returns
    ap_pc,          \* "new", "built" (after __init__), "pruned"
    \* ---- run() called again on a trading system ----
    ts_pass,        \* the number of run() calls begun after the first
    previous_pass,  \* what the pass before ended with; None in the first
    \* ---- GradSig and GradConf (portfolio/strategy.py) ----
    grad_column,    \* data["grad"]["EWGRAD_<lookback[0]>"], oldest first
    gerr_column,    \* data["gerr"]["EWGRADERR_<lookback[0]>"], oldest first
    threshold,      \* self.n_sigma of GradSig, self.__tValue__() of GradConf
    \* ---- the trades and the drawdowns of a bin (strategy.py) ----
    trade_list,     \* what __listTrades__ returned; None before the call
    trade_count,    \* what __countTrades__ returned; None before the call
    drawdown_max,   \* what __maxDrawdown__ returned; None before the call
    \* ---- the moving-average and the Turtle systems (portfolio/strategy.py) ----
    pre_cells,      \* the cells of the preliminaries read on the row just computed
    \* ---- the analysis_period lists of the indicators built (timeseries.py) ----
    period_lists,   \* per list object: the two dates it holds
    built_on,       \* per indicator built: its stored period and its list object
    \* ---- one call of __SortinoRatio__ (strategy.py) ----
    sortino_returns, \* input["Returns"]["Return"] on the rows of the bin
    sortino_ratio    \* what the call returned: its mean, its variance, its cell

tsVars == <<variant, closes, offset, init_equity, equity, debt, position, stop,
            row, pc, atRowStart, updated, afterExit, results>>

runVars == <<top, lookback_days, price, inst, stack, files, status, runs,
             written, stores>>

ddVars == <<input_equity, peak, dd_row, dd_status, drawdowns>>

saVars == <<binning, strategy_period, low_bin_edges, strategy_dates,
            strategy_offset, sa_input, bin, call, lower, upper, row_limits,
            sa_output, sa_pc, sa_status>>

apVars == <<requested_period, stored_dates, clamped_period, pruned_dates, ap_pc>>

\* the variables of the pure methods checked on their own
rerunVars == <<ts_pass, previous_pass>>
gradVars == <<grad_column, gerr_column, threshold>>
binVars == <<trade_list, trade_count, drawdown_max>>
cellVars == <<pre_cells>>
defaultVars == <<period_lists, built_on>>
sortinoVars == <<sortino_returns, sortino_ratio>>
otherVars == <<cellVars, defaultVars, sortinoVars>>
auxVars == <<apVars, rerunVars, gradVars, binVars, otherVars>>

vars == <<tsVars, runVars, ddVars, saVars, auxVars>>

\* the variables of the other components, which a step of one leaves alone
notTS == <<runVars, ddVars, saVars, auxVars>>
notRun == <<tsVars, ddVars, saVars, auxVars>>
notDD == <<tsVars, runVars, saVars, auxVars>>
notSA == <<tsVars, runVars, ddVars, auxVars>>
notAP == <<tsVars, runVars, ddVars, saVars, rerunVars, gradVars, binVars, otherVars>>
notRerun == <<runVars, ddVars, saVars, apVars, gradVars, binVars, otherVars>>

\* no indicator tree has been built
RunIdle ==
    /\ top = "none"
    /\ lookback_days = <<>>
    /\ price = <<>>
    /\ inst = <<>>
    /\ stack = <<>>
    /\ files = <<>>
    /\ status = "idle"
    /\ runs = <<>>
    /\ written = <<>>
    /\ stores = <<>>

\* no trading system has been built
TSIdle ==
    /\ variant = "none"
    /\ closes = <<>>
    /\ offset = 0
    /\ init_equity = <<0, 1>>
    /\ equity = <<0, 1>>
    /\ debt = <<0, 1>>
    /\ position = 0
    /\ stop = <<0, 1>>
    /\ row = 0
    /\ pc = "idle"
    /\ atRowStart = [position |-> 0, equity |-> <<0, 1>>, debt |-> <<0, 1>>]
    /\ updated = <<0, 1>>
    /\ afterExit = 0
    /\ results = <<>>

\* no Drawdowns analysis has been built
DDIdle ==
    /\ input_equity = <<>>
    /\ peak = <<0, 1>>
    /\ dd_row = 0
    /\ dd_status = "idle"
    /\ drawdowns = <<>>

\* no strategyAnalysis has been built
SAIdle ==
    /\ binning = "none"
    /\ strategy_period = <<>>
    /\ low_bin_edges = <<>>
    /\ strategy_dates = <<>>
    /\ strategy_offset = 0
    /\ sa_input = <<>>
    /\ bin = 0
    /\ call = 0
    /\ lower = 0
    /\ upper = 0
    /\ row_limits = <<>>
    /\ sa_output = <<>>
    /\ sa_pc = "idle"
    /\ sa_status = "idle"

\* no analysis period has been asked for
APIdle ==
    /\ requested_period = <<>>
    /\ stored_dates = <<>>
    /\ clamped_period = <<>>
    /\ pruned_dates = <<>>
    /\ ap_pc = "idle"

RerunIdle ==
    /\ ts_pass = 0
    /\ previous_pass = <<>>

\* no GradSig and no GradConf has been built
GradIdle ==
    /\ grad_column = <<>>
    /\ gerr_column = <<>>
    /\ threshold = <<0, 1>>

\* neither __listTrades__ nor __countTrades__ nor __maxDrawdown__ was called
BinIdle ==
    /\ trade_list = <<>>
    /\ trade_count = <<>>
    /\ drawdown_max = <<>>

\* no moving-average system and no Turtle system has computed a row
CellIdle == pre_cells = <<>>

\* no indicator has been built on a second dataset
DefaultIdle ==
    /\ period_lists = <<>>
    /\ built_on = <<>>

SortinoIdle == sortino_returns = <<>> /\ sortino_ratio = <<>>
OtherIdle == CellIdle /\ DefaultIdle /\ SortinoIdle

AuxIdle == APIdle /\ RerunIdle /\ GradIdle /\ BinIdle /\ OtherIdle

(***************************************************************************)
(* The tradingSystem classes.  "tradingSystem" is the base class, whose    *)
(* four tests return False; "Hold" overrides __goLong__ with True and the  *)
(* offset with 0; "Strategy" stands for every other subclass, whose tests  *)
(* and stops depend on indicator columns: their outcome on a row is an     *)
(* input, any boolean (any stop from StopValues).                          *)
(***************************************************************************)
Variants == {"tradingSystem", "Hold", "Strategy"}
StopValues == {RZero, RInt(1)}

\* a slip: no class ever asks for a Long position
goLongNever(v) == {FALSE}

goLong(v) == CASE v = "tradingSystem" -> {FALSE}
               [] v = "Hold" -> {TRUE}
               [] OTHER -> BOOLEAN

goShort(v) == CASE v = "tradingSystem" -> {FALSE}
                [] v = "Hold" -> {FALSE}
                [] OTHER -> BOOLEAN

exitLong(v) == CASE v = "tradingSystem" -> {FALSE}
                 [] v = "Hold" -> {FALSE}
                 [] OTHER -> BOOLEAN

exitShort(v) == CASE v = "tradingSystem" -> {FALSE}
                  [] v = "Hold" -> {FALSE}
                  [] OTHER -> BOOLEAN

setLongStop(v) == CASE v = "Strategy" -> StopValues
                    [] OTHER -> {RZero}

setShortStop(v) == CASE v = "Strategy" -> StopValues
                     [] OTHER -> {RZero}

\* Hold.__initialAnalysisPeriod__ returns 0; the other classes skip a
\* positive number of rows (lookback_days[0], or the preliminaries' maximum).
Offsets(v) == IF v = "Hold" THEN {0} ELSE 1..MaxOffset

TSInit ==
    /\ variant \in Variants
    /\ closes \in [1..NRows -> 1..MaxClose]
    /\ offset \in Offsets(variant)
    /\ init_equity \in {RInt(DefaultEquity), RInt(SmallEquity)}
    /\ equity = init_equity
    /\ debt = RZero
    /\ position = 0
    /\ stop = RZero
    /\ row = offset
    /\ pc = "update"
    /\ atRowStart = [position |-> 0, equity |-> init_equity, debt |-> RZero]
    /\ updated = init_equity
    /\ afterExit = 0
    /\ results = <<>>
    /\ RunIdle
    /\ DDIdle
    /\ SAIdle
    /\ AuxIdle

\* a slip: the return of the price, whatever the position held
thisReturnOfPrice(pos, close, previous_close) ==
    RDiv(RInt(close - previous_close), RInt(previous_close))

\* this_return = position*(close - previous_close)/previous_close
thisReturn(pos, close, previous_close) ==
    RDiv(RInt(pos * (close - previous_close)), RInt(previous_close))

\* self.equity *= ( 1 + this_return )
UpdatedEquity(eq, pos, close, previous_close) ==
    RMul(eq, RAdd(RInt(1), thisReturn(pos, close, previous_close)))

\* "update fund value": lines 93-96
UpdateEquity ==
    /\ pc = "update"
    /\ row < Len(closes)
    /\ LET close == PyIndex(closes, row)
           previous_close == PyIndex(closes, row - 1)
           e == UpdatedEquity(equity, position, close, previous_close)
       IN  /\ equity' = e
           /\ updated' = e
    /\ atRowStart' = [position |-> position, equity |-> equity, debt |-> debt]
    /\ pc' = "debt"
    /\ UNCHANGED <<variant, closes, offset, init_equity, debt, position, stop,
                   row, afterExit, results>>
    /\ UNCHANGED notTS

\* a slip: "<=" for "<" in the test of line 99
InsolventOrZero(eq) == RLt(eq, RZero) \/ eq = RZero

\* a slip: the debt block never entered
InsolventNever(eq) == FALSE

\* the test of line 99
Insolvent(eq) == RLt(eq, RZero)

\* "update debt value": lines 99-102
UpdateDebt ==
    /\ pc = "debt"
    /\ IF Insolvent(equity)
       THEN /\ debt' = RAdd(RAdd(debt, RMul(RInt(-1), equity)), init_equity)
            /\ equity' = init_equity
       ELSE UNCHANGED <<debt, equity>>
    /\ pc' = "exit"
    /\ UNCHANGED <<variant, closes, offset, init_equity, position, stop, row,
                   atRowStart, updated, afterExit, results>>
    /\ UNCHANGED notTS

\* "exit positions": lines 105-111
ExitPositions ==
    /\ pc = "exit"
    /\ \/ /\ position = 1
          /\ \E x \in exitLong(variant) :
                position' = IF x THEN 0 ELSE position
       \/ /\ position = -1
          /\ \E x \in exitShort(variant) :
                position' = IF x THEN 0 ELSE position
       \/ /\ position \notin {1, -1}
          /\ position' = position
    /\ afterExit' = position'
    /\ pc' = "enter"
    /\ UNCHANGED <<variant, closes, offset, init_equity, equity, debt, stop,
                   row, atRowStart, updated, results>>
    /\ UNCHANGED notTS

\* a slip: the entry tests run without the "if self.__position__==0" guard
EnterPositionsUnguarded ==
    /\ pc = "enter"
    /\ \E l \in goLong(variant) :
          IF l
          THEN /\ position' = 1
               /\ stop' \in setLongStop(variant)
          ELSE \E s \in goShort(variant) :
                 IF s
                 THEN /\ position' = -1
                      /\ stop' \in setShortStop(variant)
                 ELSE UNCHANGED <<position, stop>>
    /\ results' = Append(results, <<position', equity, debt>>)
    /\ row' = row + 1
    /\ pc' = IF row + 1 < Len(closes) THEN "update" ELSE "done"
    /\ UNCHANGED <<variant, closes, offset, init_equity, equity, debt,
                   atRowStart, updated, afterExit>>
    /\ UNCHANGED notTS

\* "enter positions" and the return statement: lines 114-123; the row loop
\* of run() then calls __calculation__ with the next row.
EnterPositions ==
    /\ pc = "enter"
    /\ IF position = 0
       THEN \E l \in goLong(variant) :
              IF l
              THEN /\ position' = 1
                   /\ stop' \in setLongStop(variant)
              ELSE \E s \in goShort(variant) :
                     IF s
                     THEN /\ position' = -1
                          /\ stop' \in setShortStop(variant)
                     ELSE UNCHANGED <<position, stop>>
       ELSE UNCHANGED <<position, stop>>
    /\ results' = Append(results, <<position', equity, debt>>)
    /\ row' = row + 1
    /\ pc' = IF row + 1 < Len(closes) THEN "update" ELSE "done"
    /\ UNCHANGED <<variant, closes, offset, init_equity, equity, debt,
                   atRowStart, updated, afterExit>>
    /\ UNCHANGED notTS

TSNext == UpdateEquity \/ UpdateDebt \/ ExitPositions \/ EnterPositions

SpecTS == TSInit /\ [][TSNext]_vars

(***************************************************************************)
(* Properties of tradingSystem.__calculation__, checked under SpecTS.      *)
(***************************************************************************)
\* a call of __calculation__ has returned and its row is the last of results
RowDone == pc \in {"update", "done"} /\ results # <<>>
LastRow == results[Len(results)]
\* the close and the previous close of the row that has just been computed
DoneClose == PyIndex(closes, row - 1)
DonePreviousClose == PyIndex(closes, row - 2)

\* C1: the position is always one of -1, 0, +1; inside a row it changes only
\* from Long or Short to Flat in the exit block and only from Flat to Long
\* or Short in the entry block, so a row that starts at +1 can end at -1 (or
\* the reverse) only by passing through 0 after the exit test of that row.
C1_ExitBeforeEntry ==
    [][ /\ position' \in {-1, 0, 1}
        /\ (position' # position) =>
              \/ (pc = "exit" /\ position \in {1, -1} /\ position' = 0)
              \/ (pc = "enter" /\ position = 0 /\ position' \in {1, -1})
        /\ (pc' \in {"update", "done"} /\ atRowStart.position * position' = -1)
              => afterExit = 0 ]_vars

\* a row that began Long has ended Short, by way of the exit test
C1_Witness ==
    /\ RowDone
    /\ atRowStart.position = 1
    /\ afterExit = 0
    /\ position = -1

\* C2: on a row whose updated equity is below 0 the stored equity is
\* init_equity and the debt has grown by init_equity + |updated equity|; on
\* every other row the debt is the debt of the previous row.
C2_DebtInjection ==
    RowDone =>
        IF RLt(updated, RZero)
        THEN /\ LastRow[2] = init_equity
             /\ LastRow[3] = RAdd(atRowStart.debt, RAdd(init_equity, RAbs(updated)))
        ELSE LastRow[3] = atRowStart.debt

\* a row whose updated equity was negative has been computed
C2_Witness ==
    /\ RowDone
    /\ RLt(updated, RZero)
    /\ LastRow[3] # atRowStart.debt

\* C3: with init_equity > 0 no output row holds a negative Equity.
C3_EquityNonNegative ==
    RLt(RZero, init_equity) =>
        \A k \in 1..Len(results) : ~ RLt(results[k][2], RZero)

\* a finished run during which debt was injected at least once
C3_Witness ==
    /\ pc = "done"
    /\ RLt(RZero, init_equity)
    /\ \E k \in 1..Len(results) : results[k][3] # RZero

\* C4: the equity update of a row uses the position left by the previous
\* row: the updated equity is the row-start equity times
\* 1 + position*(close - previous_close)/previous_close with the row-start
\* position, also on the row that exits that position, and a row that
\* starts Flat leaves equity and debt as they were, also when it enters.
C4_UpdateUsesPreviousPosition ==
    RowDone =>
        /\ updated = RMul(atRowStart.equity,
                          Rat(DonePreviousClose
                                + atRowStart.position * (DoneClose - DonePreviousClose),
                              DonePreviousClose))
        /\ atRowStart.position = 0 =>
              /\ LastRow[2] = atRowStart.equity
              /\ LastRow[3] = atRowStart.debt

\* the first row entered a position from Flat and kept the initial equity,
\* and the last computed row exited a position on a price move and still
\* applied the return of that position
C4_Witness ==
    /\ RowDone
    /\ Len(results) >= 2
    /\ results[1][1] # 0
    /\ results[1][2] = init_equity
    /\ atRowStart.position # 0
    /\ LastRow[1] = 0
    /\ DoneClose # DonePreviousClose
    /\ updated # atRowStart.equity

\* C11: under Hold every output row is Long, the debt is 0 on every row,
\* the equity never falls from one row to the next when the close does not
\* fall, and after the last row the equity is
\* init_equity * Close[last] / Close[first].
C11_HoldCompounds ==
    variant = "Hold" =>
        /\ \A k \in 1..Len(results) :
              /\ results[k][1] = 1
              /\ results[k][3] = RZero
              /\ (k > 1 /\ closes[k] >= closes[k - 1])
                    => ~ RLt(results[k][2], results[k - 1][2])
        /\ pc = "done" =>
              /\ Len(results) = Len(closes)
              /\ LastRow[2] = RMul(init_equity, Rat(closes[Len(closes)], closes[1]))

\* a finished run of Hold over a series that rose on every row but one:
\* the equity has grown by the ratio of the last close to the first
C11_Witness ==
    /\ variant = "Hold"
    /\ pc = "done"
    /\ closes[1] < closes[2]
    /\ closes[3] < closes[Len(closes)]
    /\ RLt(init_equity, LastRow[2])

(***************************************************************************)
(* The indicator classes of price.py.                                      *)
(***************************************************************************)
\* an empty dictionary / a missing attribute
None == <<>>

\* the analysis_type attribute of each class
analysis_type(c) ==
    CASE c = "MA" -> "MA"
      [] c = "VAR" -> "VAR"
      [] c = "MADAY" -> "MADAY"
      [] c = "COV" -> "COV"
      [] c = "MMAX" -> "MMAX"
      [] c = "MMIN" -> "MMIN"
      [] c = "GRAD" -> "GRAD"
      [] c = "GRADERR" -> "GRADERR"
      [] c = "EWMA" -> "EWMA"
      [] c = "EWVAR" -> "EWVAR"
      [] c = "EWMADAY" -> "EWMA"
      [] c = "EWCOV" -> "EWCOV"
      [] c = "EWGRAD" -> "EWGRAD"
      [] c = "EWGRADERR" -> "EWGRADERR"
      [] c = "EWATR" -> "EWATR"

\* __setPreliminaryAnalyses__ of each class: key -> class of the preliminary
\* (every preliminary is built on self.input_data with self.lookback_days)
setPreliminaryAnalyses(c) ==
    CASE c = "VAR" -> [k \in {"ma"} |-> "MA"]
      [] c = "COV" -> [k \in {"ma", "maday"} |-> IF k = "ma" THEN "MA" ELSE "MADAY"]
      [] c = "GRAD" -> [k \in {"var", "cov"} |-> IF k = "var" THEN "VAR" ELSE "COV"]
      [] c = "GRADERR" -> [k \in {"grad", "var"} |-> IF k = "grad" THEN "GRAD" ELSE "VAR"]
      [] c = "EWVAR" -> [k \in {"ma"} |-> "EWMA"]
      [] c = "EWCOV" -> [k \in {"ma", "maday"} |-> IF k = "ma" THEN "EWMA" ELSE "EWMADAY"]
      [] c = "EWGRAD" -> [k \in {"var", "cov"} |-> IF k = "var" THEN "EWVAR" ELSE "EWCOV"]
      [] c = "EWGRADERR" -> [k \in {"grad", "var"} |-> IF k = "grad" THEN "EWGRAD" ELSE "EWVAR"]
      [] OTHER -> None

\* the classes that list exponentialWeighting first among their bases
ExponentialWeighting == {"EWMA", "EWVAR", "EWMADAY", "EWCOV", "EWATR"}

SetMax(S) == IF S = {} THEN 0 ELSE CHOOSE x \in S : \A y \in S : y <= x

\* a slip: an indicator with preliminaries returning its own window
initialAnalysisPeriodOwn(c, lb, i) ==
    IF c \in ExponentialWeighting THEN SeedLength ELSE PyIndex(lb, i)

\* __initialAnalysisPeriod__(i) of an instance of class c with lookback_days
\* lb: exponentialWeighting's override, else timeSeriesAnalysis's
RECURSIVE initialAnalysisPeriod(_, _, _)
initialAnalysisPeriod(c, lb, i) ==
    IF c \in ExponentialWeighting THEN SeedLength
    ELSE IF setPreliminaryAnalyses(c) = None THEN PyIndex(lb, i)
    ELSE LET pre == setPreliminaryAnalyses(c)
         IN  SetMax({initialAnalysisPeriod(pre[k], lb, j) :
                        k \in DOMAIN pre, j \in 0..(Len(lb) - 1)})

\* __setName__ and __csvPath__: "<analysis_dir>/<input name>_<name>.csv";
\* one price dataset is analysed, so the file is known by the name alone
csvPath(c) == analysis_type(c)

\* "%s_%i" % (analysis_type, n): a column header
Header(t, n) == <<t, n>>
DateHeader == <<"Date">>

\* __setHeaders__
setHeaders(c, lb) ==
    <<DateHeader>> \o [k \in 1..Len(lb) |-> Header(analysis_type(c), lb[k])]

(***************************************************************************)
(* The instances of a tree are known by the path of keys that leads to     *)
(* them from the instance run() is called on.                              *)
(***************************************************************************)
RECURSIVE ClassAt(_, _)
ClassAt(c, path) ==
    IF path = <<>> THEN c
    ELSE ClassAt(setPreliminaryAnalyses(c)[Head(path)], Tail(path))

RECURSIVE PathsFrom(_, _)
PathsFrom(c, prefix) ==
    LET pre == setPreliminaryAnalyses(c)
    IN  {prefix} \cup
        UNION {PathsFrom(pre[k], Append(prefix, k)) : k \in DOMAIN pre}

Nodes(c) == PathsFrom(c, <<>>)

\* the iteration orders dict.values() / dict.keys() can give for a dictionary
\* with these keys: the order is the hash table's, fixed per dictionary
Orders(keys) ==
    {o \in [1..Cardinality(keys) -> keys] : \A k \in keys : \E j \in DOMAIN o : o[j] = k}

(***************************************************************************)
(* Cells and csv files (csvdataset.py).  A cell is the empty string of a   *)
(* row before the offset, modelled as the empty tuple, or a number.        *)
(* csv.writer writes a float with str(), which keeps 12 significant        *)
(* digits: a number whose decimal expansion ends within them is read back  *)
(* unchanged; any other number n/d is read back as <<n, d, 1>>, the float  *)
(* nearest its 12-digit decimal, which the arithmetic treats as n/d.       *)
(***************************************************************************)
Empty == <<>>

RECURSIVE StripFactor(_, _)
StripFactor(n, f) == IF n % f = 0 THEN StripFactor(n \div f, f) ELSE n

ShortDecimal(q) == StripFactor(StripFactor(q[2], 2), 5) = 1

\* str(cell) followed by float(text), for a non-date cell
ReadBack(x) ==
    IF x = Empty THEN Empty
    ELSE IF Len(x) = 2 /\ ~ ShortDecimal(x) THEN <<x[1], x[2], 1>>
    ELSE x

Reverse(s) == [k \in 1..Len(s) |-> s[Len(s) + 1 - k]]

\* __setCsvData__: the header row, then one row per date, newest first,
\* with one cell per key of data, taken in the order of self.headers
setCsvData(headers, data) ==
    LET ncol == Cardinality(DOMAIN data)
        nrow == Len(data[headers[1]])
    IN  <<headers>> \o
        [r \in 1..nrow |-> [col \in 1..ncol |-> data[headers[col]][nrow + 1 - r]]]

\* __getCsvData__: per column of the file the entries oldest first, each
\* parsed from its text, under the key self.headers[col]
getCsvData(headers, file) ==
    LET ncol == Len(file[1])
        nrow == Len(file) - 1
    IN  [h \in {headers[col] : col \in 1..ncol} |->
            LET col == SetMax({j \in 1..ncol : headers[j] = h})
            IN  [r \in 1..nrow |->
                    IF h = DateHeader THEN file[nrow + 2 - r][col]
                    ELSE ReadBack(file[nrow + 2 - r][col])]]

(***************************************************************************)
(* The recurrences of price.py.  Each __calculation__ is an operator from  *)
(* the instance attributes st, the input dictionary data, the slot i and   *)
(* the row to the new attributes, the value returned and the exception     *)
(* raised, if any ("none" otherwise).                                      *)
(***************************************************************************)
\* the key of the price dataset in the input dictionary: input_data.name
PriceKey == "price"

Close(data, r) == PyIndex(data[PriceKey][<<"Close">>], r)
High(data, r) == PyIndex(data[PriceKey][<<"High">>], r)
Low(data, r) == PyIndex(data[PriceKey][<<"Low">>], r)

\* data[key]["%s_%i" % (self.preliminary_analyses[key].analysis_type,
\*                      self.lookback_days[i])][r]
Preliminary(c, lb, data, key, i, r) ==
    PyIndex(data[key][Header(analysis_type(setPreliminaryAnalyses(c)[key]),
                             PyIndex(lb, i))], r)

\* __variable__(data, row, i) of each class
variable(c, lb, data, r, i) ==
    LET p == initialAnalysisPeriod(c, lb, i)
        at == IF r < p THEN p ELSE r
    IN  CASE c \in {"MA", "EWMA"} -> Close(data, r)
          [] c \in {"MADAY", "EWMADAY"} -> RInt(r)
          [] c \in {"VAR", "EWVAR"} ->
                LET res == RSub(Close(data, r), Preliminary(c, lb, data, "ma", i, at))
                IN  RMul(res, res)
          [] c \in {"COV", "EWCOV"} ->
                LET res_y == RSub(Close(data, r), Preliminary(c, lb, data, "ma", i, at))
                    res_x == RSub(RInt(r), Preliminary(c, lb, data, "maday", i, at))
                IN  RMul(res_y, res_x)
          [] c = "EWATR" ->
                LET a == RSub(High(data, r), Low(data, r))
                    b == RAbs(RSub(Close(data, r - 1), High(data, r)))
                    c_ == RAbs(RSub(Close(data, r - 1), Low(data, r)))
                    true_range == IF RLt(a, b) THEN b ELSE a
                IN  IF r = 0 THEN a
                    ELSE IF RLt(true_range, c_) THEN c_ ELSE true_range
          [] c = "MMAX" -> High(data, r)
          [] c = "MMIN" -> Low(data, r)

\* __dof__(i)
dof(c, lb, i) ==
    IF c \in {"VAR", "COV", "EWVAR", "EWCOV"}
    THEN initialAnalysisPeriod(c, lb, i) - 1
    ELSE initialAnalysisPeriod(c, lb, i)

\* [__variable__(data, r, i) for r in xrange(lo, hi)]
Variables(c, lb, data, i, lo, hi) ==
    [k \in 1..(hi - lo) |-> variable(c, lb, data, lo + k - 1, i)]

RECURSIVE RSum(_)
RSum(xs) == IF xs = <<>> THEN RZero ELSE RAdd(Head(xs), RSum(Tail(xs)))

\* MA.__calculation__, lines 64-69: self.__variable__(data, row-1) leaves
\* out the third argument every __variable__ requires
MAIterate(c, lb, st, data, i, row_) ==
    [st |-> st, val |-> Empty, err |-> "TypeError"]

\* MA.__calculation__ (also VAR, MADAY, COV)
MACalculation(c, lb, st, data, i, row_) ==
    IF row_ = initialAnalysisPeriod(c, lb, i)
    THEN LET xs == Variables(c, lb, data, i, 0, row_)
             sum == RAdd(st.sum, RSum(xs))
             new == [st EXCEPT !.sum = sum,
                               !.lookback_values = st.lookback_values \o xs]
         IN  IF dof(c, lb, i) = 0
             THEN [st |-> new, val |-> Empty, err |-> "ZeroDivisionError"]
             ELSE [st |-> new, val |-> RDiv(sum, RInt(dof(c, lb, i))), err |-> "none"]
    ELSE MAIterate(c, lb, st, data, i, row_)

\* __calcAlpha__
alpha(lb, i) == Rat(2, PyIndex(lb, i) + 1)

\* exponentialWeighting.__calculation__ (EWMA, EWVAR, EWMADAY, EWCOV, EWATR)
EWCalculation(c, lb, st, data, i, row_) ==
    IF row_ = initialAnalysisPeriod(c, lb, i)
    THEN LET sum == RSum(Variables(c, lb, data, i, 0, row_))
         IN  IF dof(c, lb, i) = 0
             THEN [st |-> st, val |-> Empty, err |-> "ZeroDivisionError"]
             ELSE LET y == RDiv(sum, RInt(dof(c, lb, i)))
                  IN  [st |-> [st EXCEPT !.ewma = y], val |-> y, err |-> "none"]
    ELSE LET x == variable(c, lb, data, row_ - 1, i)
             y == RAdd(RMul(alpha(lb, i), x),
                       RMul(RSub(RInt(1), alpha(lb, i)), st.ewma))
         IN  [st |-> [st EXCEPT !.ewma = y], val |-> y, err |-> "none"]

\* __test__(value, extreme): MMAX extreme < value, MMIN extreme > value
test(c, value, extreme) ==
    IF c = "MMIN" THEN RLt(value, extreme) ELSE RLt(extreme, value)

\* the loops "if self.__test__(x, self.__extreme__): self.__extreme__ = x"
RECURSIVE Scan(_, _, _)
Scan(c, xs, extreme) ==
    IF xs = <<>> THEN extreme
    ELSE Scan(c, Tail(xs), IF test(c, Head(xs), extreme) THEN Head(xs) ELSE extreme)

\* MMAX.__calculation__, lines 290-299: "First step": row 0 is read
\* whatever the row, then the rows 1 to row - 1
MMAXFirstStep(c, lb, st, data, i, row_) ==
    LET xs == <<variable(c, lb, data, 0, i)>> \o Variables(c, lb, data, i, 1, row_)
    IN  [st EXCEPT !.lookback_values = st.lookback_values \o xs,
                   !.extreme = Scan(c, Tail(xs), Head(xs))]

\* MMAX.__calculation__ (also MMIN)
MMAXCalculation(c, lb, st, data, i, row_) ==
    IF row_ = initialAnalysisPeriod(c, lb, i)
    THEN LET new == MMAXFirstStep(c, lb, st, data, i, row_)
         IN  [st |-> new, val |-> new.extreme, err |-> "none"]
    ELSE LET x == variable(c, lb, data, row_ - 1, i)
             appended == Append(st.lookback_values, x)
             kept == Tail(appended)
             extreme ==
                IF appended[1] = st.extreme
                THEN Scan(c, kept, kept[1])
                ELSE IF test(c, x, st.extreme) THEN x ELSE st.extreme
         IN  [st |-> [st EXCEPT !.lookback_values = kept, !.extreme = extreme],
              val |-> extreme, err |-> "none"]

\* GRAD.__calculation__ (also EWGRAD)
GRADCalculation(c, lb, st, data, i, row_) ==
    LET var == Preliminary(c, lb, data, "var", i, row_)
        cov == Preliminary(c, lb, data, "cov", i, row_)
    IN  IF var[1] = 0
        THEN [st |-> st, val |-> Empty, err |-> "ZeroDivisionError"]
        ELSE [st |-> st, val |-> RDiv(cov, var), err |-> "none"]

\* math.sqrt of a rational: kept as the radicand, marked <<n, d, 2>>
Sqrt(q) == IF q[1] = 0 THEN RZero ELSE <<q[1], q[2], 2>>

\* numerators and denominators up to MaxRoot are squared exactly
MaxRoot == 1000
Squarable(q) == Abs(q[1]) <= MaxRoot /\ q[2] <= MaxRoot

\* GRADERR.__dayVar__, for slot i
dayVar(lb, i) ==
    LET n == PyIndex(lb, i)
        sum_d == RSum([d \in 1..i |-> RInt(d - 1)])
        mean_d == RDiv(sum_d, RInt(n))
        sum_ressq_d == RSum([d \in 1..n |->
                        RMul(RSub(RInt(d - 1), mean_d), RSub(RInt(d - 1), mean_d))])
    IN  RDiv(sum_ressq_d, RInt(n - 1))

\* GRADERR.__calculation__ (also EWGRADERR)
GRADERRCalculation(c, lb, st, data, i, row_) ==
    LET grad == Preliminary(c, lb, data, "grad", i, row_)
        var == Preliminary(c, lb, data, "var", i, row_)
    IN  IF var[1] = 0 \/ PyIndex(lb, i) = 2
        THEN [st |-> st, val |-> Empty, err |-> "ZeroDivisionError"]
        ELSE IF ~ Squarable(grad)
        \* the value kept unevaluated: <<day_var/var, grad, lookback - 2>>
        THEN [st |-> st,
              val |-> <<RDiv(dayVar(lb, i), var), <<grad[1], grad[2]>>, PyIndex(lb, i) - 2>>,
              err |-> "none"]
        ELSE LET gvar == RDiv(RSub(RDiv(dayVar(lb, i), var), RMul(grad, grad)),
                              RInt(PyIndex(lb, i) - 2))
             IN  [st |-> st,
                  val |-> IF RLt(gvar, RZero) THEN RZero ELSE Sqrt(gvar),
                  err |-> "none"]

\* self.__calculation__(input, i, row), by the class of the instance
calculation(c, lb, st, data, i, row_) ==
    CASE c \in {"MA", "VAR", "MADAY", "COV"} -> MACalculation(c, lb, st, data, i, row_)
      [] c \in ExponentialWeighting -> EWCalculation(c, lb, st, data, i, row_)
      [] c \in {"MMAX", "MMIN"} -> MMAXCalculation(c, lb, st, data, i, row_)
      [] c \in {"GRAD", "EWGRAD"} -> GRADCalculation(c, lb, st, data, i, row_)
      [] c \in {"GRADERR", "EWGRADERR"} -> GRADERRCalculation(c, lb, st, data, i, row_)

(***************************************************************************)
(* timeSeriesAnalysis.run over the tree of instances.                      *)
(***************************************************************************)
Classes == {"MA", "VAR", "MADAY", "COV", "MMAX", "MMIN", "GRAD", "GRADERR",
            "EWMA", "EWVAR", "EWMADAY", "EWCOV", "EWGRAD", "EWGRADERR", "EWATR"}

\* the instances run() is called on: single indicators, run on every short
\* series, and the indicators with preliminaries and EWATR, run on the
\* longer series
SingleTops == {"MA", "MMAX", "MMIN"}
TreeTops == {"VAR", "COV", "GRAD", "GRADERR", "EWVAR", "EWCOV", "EWGRAD", "EWGRADERR",
             "EWATR"}

\* lookback_days: one or more distinct windows
LookbackLists ==
    {lb \in UNION {[1..n -> 1..MaxLookback] : n \in 1..MaxSlots} :
        \A a, b \in DOMAIN lb : a # b => lb[a] # lb[b]}

\* GRADERR.__init__ computes __dayVar__, which divides by lookback and by
\* lookback - 1.0: with a window of 0 or of 1 the constructor raises and no
\* instance exists
Constructible(c, lb) ==
    c \in {"GRADERR", "EWGRADERR"} => \A k \in DOMAIN lb : lb[k] # 1 /\ lb[k] # 0

\* lookback_days with a window below 1: timeSeriesAnalysis.__init__, lines
\* 43-46, prints "Number of lookback days must be greater than zero." for
\* it and goes on to build the instance
LookbackListsBelowOne ==
    {lb \in UNION {[1..n -> 0..MaxLookback] : n \in 1..MaxSlots} :
        /\ \A a, b \in DOMAIN lb : a # b => lb[a] # lb[b]
        /\ \E k \in DOMAIN lb : lb[k] < 1}

\* closing prices of a series of n rows: every series for a single
\* indicator; the constant and the sawtooth series for a tree
AllCloses(n) == [1..n -> 1..MaxPrice]
TreeCloses(n) ==
    {[k \in 1..n |-> a] : a \in 1..MaxPrice}
    \cup {[k \in 1..n |-> ((k + a) % MaxPrice) + 1] : a \in 1..MaxPrice}

\* the price dataset of a series of closes: dates ascending, oldest first;
\* the day's high one above the close, the day's low at the close
PriceData(cl) ==
    [h \in {DateHeader, <<"Close">>, <<"High">>, <<"Low">>} |->
        [k \in 1..Len(cl) |->
            CASE h = DateHeader -> k
              [] h = <<"Close">> -> RInt(cl[k])
              [] h = <<"High">> -> RInt(cl[k] + 1)
              [] h = <<"Low">> -> RInt(cl[k])]]

\* the attributes an instance has after __init__
NewInstance(c, lb) ==
    [headers |-> setHeaders(c, lb),
     lookback_values |-> <<>>,
     sum |-> RInt(Unset),
     extreme |-> RInt(Unset),
     ewma |-> RZero]

\* the attributes and the files after the constructor of the top instance,
\* of one of the given classes, called with one of the given lists as
\* lookback_days
Built(tops, lists) ==
    /\ top \in tops
    /\ lookback_days \in {lb \in lists : Constructible(top, lb)}
    /\ \E n \in 2..(IF top \in SingleTops THEN NSingle ELSE NPrice) :
          \E cl \in (IF top \in SingleTops THEN AllCloses(n) ELSE TreeCloses(n)) :
             price = PriceData(cl)
    /\ inst = [n \in Nodes(top) |-> NewInstance(ClassAt(top, n), lookback_days)]
    /\ stack = <<>>
    /\ files = [f \in {csvPath(c) : c \in Classes} |-> None]
    /\ status = "built"
    /\ runs = [n \in Nodes(top) |-> 0]
    /\ written = [n \in Nodes(top) |-> None]
    /\ stores = [f \in {csvPath(c) : c \in Classes} |-> 0]

\* the state after the constructor of an indicator
Constructed(lists) ==
    /\ Built(SingleTops \cup TreeTops, lists)
    /\ TSIdle
    /\ DDIdle
    /\ SAIdle
    /\ AuxIdle

RunInit == Constructed(LookbackLists)

\* an instance constructed with a window below 1
BelowOneInit == Constructed(LookbackListsBelowOne)

\* the frame of a run() call on an instance: order is the order in which
\* its dictionary of preliminaries iterates, k the number of them run
NewFrame(node, order) ==
    [node |-> node, order |-> order, k |-> 0, pc |-> "preliminaries",
     input |-> None, output |-> None, i |-> 0, row_ |-> 0, results |-> <<>>]

Frame == stack[Len(stack)]
ClassOf(node) == ClassAt(top, node)
PreliminaryKeys(node) == DOMAIN setPreliminaryAnalyses(ClassOf(node))

\* run() is called on the top instance
Run ==
    /\ status = "built"
    /\ \E order \in Orders(PreliminaryKeys(<<>>)) :
          stack' = <<NewFrame(<<>>, order)>>
    /\ status' = "running"
    /\ runs' = [runs EXCEPT ![<<>>] = @ + 1]
    /\ UNCHANGED <<top, lookback_days, price, inst, files, written, stores>>
    /\ UNCHANGED notRun

\* a slip: no preliminary left to run, whatever was run
PreliminariesLeftNone(f) == FALSE

\* the loop of lines 177-179 has a preliminary left to run
PreliminariesLeft(f) == f.k < Len(f.order)

\* lines 177-179: analysis.run() on the next preliminary
RunPreliminary ==
    /\ status = "running"
    /\ Frame.pc = "preliminaries"
    /\ PreliminariesLeft(Frame)
    /\ LET child == Append(Frame.node, Frame.order[Frame.k + 1])
       IN  /\ \E order \in Orders(PreliminaryKeys(child)) :
                 stack' = Append(stack, NewFrame(child, order))
           /\ runs' = [runs EXCEPT ![child] = @ + 1]
    /\ UNCHANGED <<top, lookback_days, price, inst, files, status, written, stores>>
    /\ UNCHANGED notRun

\* __pruneData__: the rows whose date lies in the analysis period, which
\* __setAnalysisPeriod__ has clamped to the stored period of the input
RECURSIVE Keep(_, _)
Keep(col, keep) ==
    IF col = <<>> THEN <<>>
    ELSE (IF Head(keep) THEN <<Head(col)>> ELSE <<>>) \o Keep(Tail(col), Tail(keep))

pruneData(data) ==
    LET dates == data[DateHeader]
        analysis_period == <<dates[1], dates[Len(dates)]>>
        keep == [k \in 1..Len(dates) |->
                   ~ (dates[k] < analysis_period[1]) /\ ~ (dates[k] > analysis_period[2])]
    IN  [h \in DOMAIN data |-> Keep(data[h], keep)]

\* lines 181-190: the input dictionary is read, the price data and the
\* csv file of each preliminary (open() raises IOError when the file does
\* not exist), and the output gets its Date column
GetInput ==
    /\ status = "running"
    /\ Frame.pc = "preliminaries"
    /\ ~ PreliminariesLeft(Frame)
    /\ LET node == Frame.node
           c == ClassOf(node)
           pre == setPreliminaryAnalyses(c)
           child(key) == Append(node, key)
           input == [key \in {PriceKey} \cup DOMAIN pre |->
                        IF key = PriceKey THEN pruneData(price)
                        ELSE getCsvData(inst[child(key)].headers, files[csvPath(pre[key])])]
       IN  IF \E key \in DOMAIN pre : files[csvPath(pre[key])] = None
           THEN /\ stack' = <<>>
                /\ status' = "IOError"
                /\ inst' = inst
           ELSE /\ status' = status
                /\ stack' = [stack EXCEPT ![Len(stack)] =
                          [@ EXCEPT !.pc = "rows",
                                    !.input = input,
                                    !.output = [h \in {DateHeader} |-> input[PriceKey][DateHeader]],
                                    !.i = 0,
                                    !.row_ = initialAnalysisPeriod(c, lookback_days, 0),
                                    !.results = <<>>]]
                \* __getCsvData__ appends the header row of the file to self.headers
                /\ inst' = [n \in DOMAIN inst |->
                         IF \E key \in DOMAIN pre : n = child(key)
                         THEN [inst[n] EXCEPT !.headers =
                                  @ \o files[csvPath(ClassOf(n))][1]]
                         ELSE inst[n]]
    /\ UNCHANGED <<top, lookback_days, price, files, runs, written, stores>>
    /\ UNCHANGED notRun

NumRows(f) == Len(f.input[PriceKey][DateHeader])

\* line 202: one call of self.__calculation__(input, i, row); an exception
\* raised by it ends every run() in progress
Calculate ==
    /\ status = "running"
    /\ Frame.pc = "rows"
    /\ Frame.row_ < NumRows(Frame)
    /\ LET c == ClassOf(Frame.node)
           r == calculation(c, lookback_days, inst[Frame.node], Frame.input,
                            Frame.i, Frame.row_)
       IN  /\ inst' = [inst EXCEPT ![Frame.node] = r.st]
           /\ IF r.err = "none"
              THEN /\ stack' = [stack EXCEPT ![Len(stack)] =
                                 [@ EXCEPT !.results = Append(@, r.val),
                                           !.row_ = @ + 1]]
                   /\ status' = status
              ELSE /\ stack' = <<>>
                   /\ status' = r.err
    /\ UNCHANGED <<top, lookback_days, price, files, runs, written, stores>>
    /\ UNCHANGED notRun

\* lines 195-197: start, one not-available marker per row before the offset
Start(n) == [k \in 1..n |-> Empty]

\* lines 204-214, after the row loop of slot i: results[0] is read (an
\* IndexError when no row was computed) and the column start + results is
\* put under headers[i+1]; then the next slot begins, if any
FillColumn ==
    /\ status = "running"
    /\ Frame.pc = "rows"
    /\ Frame.row_ >= NumRows(Frame)
    /\ LET c == ClassOf(Frame.node)
           i == Frame.i
           h == PyIndex(inst[Frame.node].headers, i + 1)
           column == Start(initialAnalysisPeriod(c, lookback_days, i)) \o Frame.results
           output == [k \in DOMAIN Frame.output \cup {h} |->
                        IF k = h THEN column ELSE Frame.output[k]]
       IN  IF Frame.results = <<>>
           THEN /\ stack' = <<>>
                /\ status' = "IndexError"
           ELSE /\ status' = status
                /\ stack' = [stack EXCEPT ![Len(stack)] =
                     IF i + 1 < Len(lookback_days)
                     THEN [@ EXCEPT !.output = output,
                                    !.i = i + 1,
                                    !.row_ = initialAnalysisPeriod(c, lookback_days, i + 1),
                                    !.results = <<>>]
                     ELSE [@ EXCEPT !.output = output, !.i = i + 1, !.pc = "store"]]
    /\ UNCHANGED <<top, lookback_days, price, inst, files, runs, written, stores>>
    /\ UNCHANGED notRun

\* a slip: run() returns without its caller's loop moving on
SetCsvDataStay ==
    /\ status = "running"
    /\ Frame.pc = "store"
    /\ LET file == setCsvData(inst[Frame.node].headers, Frame.output)
           path == csvPath(ClassOf(Frame.node))
       IN  /\ files' = [files EXCEPT ![path] = file]
           /\ stores' = [stores EXCEPT ![path] = @ + 1]
           /\ written' = [written EXCEPT ![Frame.node] = file]
    /\ IF Len(stack) = 1
       THEN /\ stack' = <<>>
            /\ status' = "finished"
       ELSE /\ stack' = SubSeq(stack, 1, Len(stack) - 1)
            /\ status' = status
    /\ UNCHANGED <<top, lookback_days, price, inst, runs>>
    /\ UNCHANGED notRun

\* lines 216-217: the output is written to the csv file of the instance
\* and run() returns to its caller, whose loop moves to the next preliminary
SetCsvData ==
    /\ status = "running"
    /\ Frame.pc = "store"
    /\ LET file == setCsvData(inst[Frame.node].headers, Frame.output)
           path == csvPath(ClassOf(Frame.node))
       IN  /\ files' = [files EXCEPT ![path] = file]
           /\ stores' = [stores EXCEPT ![path] = @ + 1]
           /\ written' = [written EXCEPT ![Frame.node] = file]
    /\ IF Len(stack) = 1
       THEN /\ stack' = <<>>
            /\ status' = "finished"
       ELSE /\ stack' = [SubSeq(stack, 1, Len(stack) - 1) EXCEPT ![Len(stack) - 1] =
                           [@ EXCEPT !.k = @ + 1]]
            /\ status' = status
    /\ UNCHANGED <<top, lookback_days, price, inst, runs>>
    /\ UNCHANGED notRun

RunNext == Run \/ RunPreliminary \/ GetInput \/ Calculate \/ FillColumn \/ SetCsvData

Spec == RunInit /\ [][RunNext]_vars

SpecBelowOne == BelowOneInit /\ [][RunNext]_vars

(***************************************************************************)
(* DualMA (portfolio/strategy.py): a tradingSystem with one preliminary,   *)
(* "ma", an EWMA built on self.ma_lookback.  run() is that of              *)
(* timeSeriesAnalysis: the EWMA is the top instance of the tree above and  *)
(* lookback_days of the tree is ma_lookback; the rows of the strategy are  *)
(* computed once the run of the EWMA has finished.                         *)
(***************************************************************************)
\* the state after DualMA.__init__, run() called and about to run "ma"
DualMAInit ==
    /\ Built({"EWMA"}, LookbackLists)
    /\ variant = "DualMA"
    /\ closes = [k \in 1..Len(price[<<"Close">>]) |-> price[<<"Close">>][k][1]]
    /\ offset = SetMax({initialAnalysisPeriod("EWMA", lookback_days, j) :
                           j \in 0..(Len(lookback_days) - 1)})
    /\ init_equity = RInt(DefaultEquity)
    /\ equity = init_equity
    /\ debt = RZero
    /\ position = 0
    /\ stop = RZero
    /\ row = offset
    /\ pc = "preliminaries"
    /\ atRowStart = [position |-> 0, equity |-> init_equity, debt |-> RZero]
    /\ updated = init_equity
    /\ afterExit = 0
    /\ results = <<>>
    /\ DDIdle
    /\ SAIdle
    /\ AuxIdle

\* lines 184-187 of run(): the price data and the file of "ma" are read
\* (__getCsvData__ appends the header row of the file to the EWMA's headers)
DualMAGetInput ==
    /\ variant = "DualMA"
    /\ pc = "preliminaries"
    /\ status = "finished"
    /\ pc' = "rows"
    /\ inst' = [inst EXCEPT ![<<>>].headers = @ \o files[csvPath("EWMA")][1]]
    /\ UNCHANGED <<variant, closes, offset, init_equity, equity, debt, position,
                   stop, row, atRowStart, updated, afterExit, results>>
    /\ UNCHANGED <<top, lookback_days, price, stack, files, status, runs, written,
                   stores>>
    /\ UNCHANGED <<ddVars, saVars, auxVars>>

\* data["ma"]["%s_%i" % (analysis_type, self.ma_lookback[k])][r]
maColumn(k, r) ==
    PyIndex(getCsvData(inst[<<>>].headers, files[csvPath("EWMA")])
                [Header(analysis_type("EWMA"), PyIndex(lookback_days, k))], r)

\* DualMA.__goLong__ and __goShort__: ma_newer > ma_older, ma_newer < ma_older
DualMAgoLong(r) == RLt(maColumn(1, r), maColumn(0, r))
DualMAgoShort(r) == RLt(maColumn(0, r), maColumn(1, r))

\* one call of tradingSystem.__calculation__ on a DualMA.  Whatever the
\* position, one of the four tests runs, and each reads self.ma_lookback[1]:
\* an IndexError when ma_lookback has one window.
DualMACalculation ==
    /\ variant = "DualMA"
    /\ pc = "rows"
    /\ row < Len(closes)
    /\ LET e == UpdatedEquity(equity, position, PyIndex(closes, row),
                              PyIndex(closes, row - 1))
           equity2 == IF Insolvent(e) THEN init_equity ELSE e
           debt2 == IF Insolvent(e)
                    THEN RAdd(RAdd(debt, RMul(RInt(-1), e)), init_equity)
                    ELSE debt
           exited == CASE position = 1 -> IF DualMAgoShort(row) THEN 0 ELSE 1
                       [] position = -1 -> IF DualMAgoLong(row) THEN 0 ELSE -1
                       [] OTHER -> position
           entered == IF exited # 0 THEN exited
                      ELSE IF DualMAgoLong(row) THEN 1
                      ELSE IF DualMAgoShort(row) THEN -1
                      ELSE 0
       IN  /\ equity' = equity2
           /\ debt' = debt2
           /\ updated' = e
           /\ atRowStart' = [position |-> position, equity |-> equity, debt |-> debt]
           /\ IF Len(lookback_days) < 2
              THEN /\ pc' = "IndexError"
                   /\ UNCHANGED <<position, stop, afterExit, results, row>>
              ELSE /\ position' = entered
                   /\ stop' = IF exited = 0 /\ entered # 0 THEN RZero ELSE stop
                   /\ afterExit' = exited
                   /\ results' = Append(results, <<entered, equity2, debt2>>)
                   /\ row' = row + 1
                   /\ pc' = IF row + 1 < Len(closes) THEN "rows" ELSE "done"
    /\ UNCHANGED <<variant, closes, offset, init_equity>>
    /\ UNCHANGED notTS

DualMANext ==
    \/ Run \/ GetInput \/ Calculate \/ FillColumn \/ SetCsvData
    \/ DualMAGetInput \/ DualMACalculation

SpecDualMA == DualMAInit /\ [][DualMANext]_vars

(***************************************************************************)
(* Properties of run() and of the price indicators, checked under Spec.    *)
(***************************************************************************)
NumPriceRows == Len(price[DateHeader])
Slots == 0..(Len(lookback_days) - 1)

\* the columns of the csv file of class c, as a reader gets them
StoredColumns(c) == getCsvData(setHeaders(c, lookback_days), files[csvPath(c)])

\* the instances below an instance, those without preliminaries among them
Descendants(n) ==
    {m \in Nodes(top) : Len(m) > Len(n) /\ SubSeq(m, 1, Len(n)) = n}
Leaves(n) == {m \in Descendants(n) : PreliminaryKeys(m) = {}}

\* the largest (MMAX) or smallest (MMIN) of High (Low) over rows r-n .. r-1
WindowScan(c, r, n) ==
    LET col == IF c = "MMIN" THEN price[<<"Low">>] ELSE price[<<"High">>]
        xs == {PyIndex(col, j) : j \in (r - n)..(r - 1)}
    IN  IF c = "MMIN"
        THEN CHOOSE x \in xs : \A y \in xs : ~ RLt(y, x)
        ELSE CHOOSE x \in xs : \A y \in xs : ~ RLt(x, y)

\* C5: for every slot i with window N_i and every row r >= N_i the stored
\* MMAX (MMIN) value at r is the maximum of High (minimum of Low) over the
\* rows r-N_i .. r-1.
C5_WindowExtreme ==
    (top \in {"MMAX", "MMIN"} /\ status = "finished") =>
        \A i \in Slots :
            \A r \in PyIndex(lookback_days, i)..(NumPriceRows - 1) :
                PyIndex(StoredColumns(top)[Header(top, PyIndex(lookback_days, i))], r)
                    = WindowScan(top, r, PyIndex(lookback_days, i))

\* the mean of Close over rows r-n .. r-1
WindowMean(r, n) ==
    RDiv(RSum([k \in 1..n |-> PyIndex(price[<<"Close">>], r - n + k - 1)]), RInt(n))

\* C6: every value MA computes for slot i (window N) at a row r >= N is the
\* mean of Close over the rows r-N .. r-1.
C6_MovingAverage ==
    (top = "MA" /\ stack # <<>> /\ Frame.pc = "rows") =>
        \A k \in 1..Len(Frame.results) :
            Frame.results[k]
                = WindowMean(PyIndex(lookback_days, Frame.i) + k - 1,
                             PyIndex(lookback_days, Frame.i))

\* the offset of an instance without preliminaries, for its slot j
C7_OwnOffset(n, j) ==
    IF ClassOf(n) \in ExponentialWeighting THEN SeedLength
    ELSE PyIndex(lookback_days, j)

\* C7: the offset of an instance with preliminaries is, for every slot, the
\* largest own offset among the instances without preliminaries below it
\* (all their slots); and in every stored file the rows before the offset
\* of a column hold the not-available marker and all other rows a value.
C7_InitialOffset ==
    /\ \A n \in Nodes(top) :
          PreliminaryKeys(n) # {} =>
             \A i \in Slots :
                initialAnalysisPeriod(ClassOf(n), lookback_days, i)
                   = SetMax({C7_OwnOffset(m, j) : m \in Leaves(n), j \in Slots})
    /\ \A n \in Nodes(top) :
          written[n] # None =>
             LET c == ClassOf(n)
                 data == getCsvData(setHeaders(c, lookback_days), written[n])
             IN  \A i \in Slots :
                    LET h == Header(analysis_type(c), PyIndex(lookback_days, i))
                    IN  /\ h \in DOMAIN data
                        /\ Len(data[h]) = NumPriceRows
                        /\ \A r \in 0..(NumPriceRows - 1) :
                              (PyIndex(data[h], r) = Empty)
                                 <=> (r < initialAnalysisPeriod(c, lookback_days, i))

\* a finished run of an indicator with preliminaries and two windows, whose
\* second window is the smaller: its column starts at the common offset
C7_Witness ==
    /\ status = "finished"
    /\ top \in TreeTops
    /\ Len(lookback_days) = 2
    /\ lookback_days[2] < lookback_days[1]
    /\ LET col == StoredColumns(top)[Header(analysis_type(top), lookback_days[2])]
       IN  /\ PyIndex(col, SeedLength - 1) = Empty
           /\ PyIndex(col, SeedLength) # Empty

\* C8: when a run() has read its input, and so before it computes a row,
\* every instance below it has returned from its own run() and its csv
\* file exists; no run() finds the file of a preliminary missing.
C8_PreliminariesFirst ==
    /\ status # "IOError"
    /\ \A d \in 1..Len(stack) :
          stack[d].pc # "preliminaries" =>
             \A m \in Descendants(stack[d].node) :
                /\ written[m] # None
                /\ files[csvPath(ClassOf(m))] # None

\* an instance with preliminaries two levels deep is computing its rows
C8_Witness ==
    /\ stack # <<>>
    /\ Frame.pc = "rows"
    /\ Frame.results # <<>>
    /\ \E m \in Descendants(Frame.node) : Len(m) >= Len(Frame.node) + 2

C10_OwnCacheName ==
    /\ \A n, m \in Nodes(top) :
          (written[n] # None /\ written[m] # None /\ ClassOf(n) # ClassOf(m))
             => csvPath(ClassOf(n)) # csvPath(ClassOf(m))
    /\ \A d \in 1..Len(stack) :
          stack[d].pc # "preliminaries" =>
             \A key \in PreliminaryKeys(stack[d].node) :
                LET child == Append(stack[d].node, key)
                IN  stack[d].input[key]
                       = getCsvData(setHeaders(ClassOf(child), lookback_days),
                                    written[child])

\* the Close column holds one and the same value on every row
ConstantClose ==
    \A r \in 1..NumPriceRows : price[<<"Close">>][r] = price[<<"Close">>][1]

\* the value the claim names for a computed row of class c on such a series
ConstantValue(c) ==
    IF c \in {"MA", "EWMA"} THEN price[<<"Close">>][1] ELSE RZero

\* the computed rows of the file an instance stored all hold ConstantValue
StoredConstant(n) ==
    LET c == ClassOf(n)
        data == getCsvData(setHeaders(c, lookback_days), written[n])
    IN  \A i \in Slots :
           \A r \in initialAnalysisPeriod(c, lookback_days, i)..(NumPriceRows - 1) :
              PyIndex(data[Header(analysis_type(c), PyIndex(lookback_days, i))], r)
                 = ConstantValue(c)

\* C12: on a series of constant close c every computed row of MA and of
\* EWMA is c and every computed row of VAR and of EWVAR is 0.
C12_ConstantSeries ==
    (top # "none" /\ ConstantClose) =>
        \A n \in Nodes(top) :
           (written[n] # None /\ ClassOf(n) \in {"MA", "EWMA", "VAR", "EWVAR"})
              => StoredConstant(n)

(***************************************************************************)
(* Drawdowns (returns.py): run() calls __calculation__ once per row of the *)
(* equity series of a trading system, from row 0 on.                       *)
(***************************************************************************)
\* largest number of rows of an equity series, and its largest value
NEquity == 4
MaxEquity == 3

DDInit ==
    /\ \E n \in 1..NEquity : input_equity \in [1..n -> {RInt(e) : e \in 0..MaxEquity}]
    /\ peak = RZero
    /\ dd_row = 0
    /\ dd_status = "running"
    /\ drawdowns = <<>>
    /\ TSIdle
    /\ RunIdle
    /\ SAIdle
    /\ AuxIdle

\* a slip: the peak is replaced whenever the equity differs from it
NewPeakOnChange(eq, pk) == eq # pk

\* the test of line 182: data[...]["Equity"][row] > self.__peak__
NewPeak(eq, pk) == RLt(pk, eq)

\* Drawdowns.__calculation__, lines 182-187
DrawdownsCalculation ==
    /\ dd_status = "running"
    /\ dd_row < Len(input_equity)
    /\ LET eq == PyIndex(input_equity, dd_row)
           pk == IF NewPeak(eq, peak) THEN eq ELSE peak
       IN  /\ peak' = pk
           /\ IF pk = RZero
              THEN /\ dd_status' = "ZeroDivisionError"
                   /\ UNCHANGED <<dd_row, drawdowns>>
              ELSE /\ drawdowns' = Append(drawdowns, <<eq, pk, RDiv(RSub(pk, eq), pk)>>)
                   /\ dd_row' = dd_row + 1
                   /\ dd_status' = dd_status
    /\ UNCHANGED input_equity
    /\ UNCHANGED notDD

\* the end of run(): the columns Equity, Peak and Drawdown are stored
DrawdownsStore ==
    /\ dd_status = "running"
    /\ dd_row >= Len(input_equity)
    /\ dd_status' = "finished"
    /\ UNCHANGED <<input_equity, peak, dd_row, drawdowns>>
    /\ UNCHANGED notDD

DDNext == DrawdownsCalculation \/ DrawdownsStore

SpecDD == DDInit /\ [][DDNext]_vars

\* the peak before output row k was computed
PeakBefore(k) == IF k = 1 THEN RZero ELSE drawdowns[k - 1][2]

\* C13: over an equity series of positive values, on every output row the
\* Peak is not below the previous Peak nor below the Equity, the Drawdown
\* lies in [0, 1], it is 0 on every row where the Equity sets a new peak
\* and it is 0 only on rows where the Equity stands at the peak.
C13_DrawdownRange ==
    (\A r \in 1..Len(input_equity) : RLt(RZero, input_equity[r])) =>
        \A k \in 1..Len(drawdowns) :
            LET eq == drawdowns[k][1]
                pk == drawdowns[k][2]
                dd == drawdowns[k][3]
            IN  /\ eq = input_equity[k]
                /\ ~ RLt(pk, PeakBefore(k))
                /\ ~ RLt(pk, eq)
                /\ ~ RLt(dd, RZero)
                /\ ~ RLt(RInt(1), dd)
                /\ RLt(PeakBefore(k), eq) => dd = RZero
                /\ dd = RZero <=> eq = pk

\* a finished run with a new peak after a drawdown
C13_Witness ==
    /\ dd_status = "finished"
    /\ Len(drawdowns) >= 3
    /\ RLt(RZero, drawdowns[2][3])
    /\ RLt(drawdowns[2][2], drawdowns[3][1])
    /\ drawdowns[3][3] = RZero
    /\ \A r \in 1..Len(input_equity) : RLt(RZero, input_equity[r])

(***************************************************************************)
(* strategyAnalysis (strategy.py).  A date is the number of its day; the   *)
(* model's calendar has MonthsPerYear months of MonthLength days a year.   *)
(***************************************************************************)
MonthLength == 2
MonthsPerYear == 3
\* largest number of rows of the output of the strategy, the latest day of
\* its first row and the largest number of days from a row to the next
\* (the first row is tried on day 0 and on the latest day, a row the day
\* after the row before it and the largest number of days after it)
NDates == 7
MaxFirst == 1
MaxGap == 2

YearLength == MonthsPerYear * MonthLength

\* date.year, date.month, and datetime.date(y, 1, 1)
year(date) == date \div YearLength
month(date) == (date % YearLength) \div MonthLength
FirstOfJanuary(y) == y * YearLength
one_day == 1

\* a slip: the loop over the years starts at the year of the period's start
lowBinEdgesFromStartYear(b, period) ==
    IF b = "Annual"
    THEN <<period[1]>>
         \o [k \in 1..(year(period[2]) - year(period[1]) + 1) |->
                FirstOfJanuary(year(period[1]) + k - 1)]
         \o <<period[2] + one_day>>
    ELSE <<period[1], period[2] + one_day>>

\* __lowBinEdges__ with self.binning b and self.strategy.analysis_period
lowBinEdges(b, period) ==
    IF b = "Annual"
    THEN <<period[1]>>
         \o [k \in 1..(year(period[2]) - year(period[1])) |->
                FirstOfJanuary(year(period[1]) + k)]
         \o <<period[2] + one_day>>
    ELSE <<period[1], period[2] + one_day>>

\* __binLimits__(bin)
binLimits(b) == <<PyIndex(low_bin_edges, b), PyIndex(low_bin_edges, b + 1)>>

\* the Date columns a price file can give: strictly ascending
RECURSIVE DatesFrom(_, _)
DatesFrom(first, gaps) ==
    IF gaps = <<>> THEN <<first>>
    ELSE <<first>> \o DatesFrom(first + Head(gaps), Tail(gaps))

DateColumns ==
    {DatesFrom(first, gaps) :
        first \in {0, MaxFirst},
        gaps \in UNION {[1..n -> {1, MaxGap}] : n \in 0..(NDates - 1)}}

\* __setAnalysisPeriod__ and __pruneData__ of the strategy: the requested
\* period (by default 1897 to today) is cut to the stored one and the rows
\* inside it are kept, so the period is that of the rows
Period(dates) == <<dates[1], dates[Len(dates)]>>

\* the state after strategyAnalysis.__init__
SAInit ==
    /\ binning \in {"All", "Annual"}
    /\ strategy_dates \in DateColumns
    /\ strategy_period = Period(strategy_dates)
    /\ strategy_offset \in {o \in 0..1 : o < Len(strategy_dates)}
    /\ low_bin_edges = lowBinEdges(binning, strategy_period)
    /\ sa_input = None
    /\ bin = 0
    /\ call = 0
    /\ lower = 0
    /\ upper = 0
    /\ row_limits = <<>>
    /\ sa_output = <<>>
    /\ sa_pc = "preliminaries"
    /\ sa_status = "built"
    /\ TSIdle
    /\ RunIdle
    /\ DDIdle
    /\ AuxIdle

\* returnsAnalysis.__pruneData__ with granularity "Monthly": the loop of
\* lines 76-89 from row r on; tomorrow is the_month_tomorrow, -1 while it is
\* unassigned.  The result: the rows kept, and the exception raised if any.
RECURSIVE MonthlyRows(_, _, _, _)
MonthlyRows(dates, r, tomorrow, kept) ==
    IF r > Len(dates) - 1 THEN [rows |-> kept, err |-> "none"]
    ELSE LET last == (r + 1 > Len(dates) - 1)
             tm == IF last THEN tomorrow ELSE month(PyIndex(dates, r + 1))
             k1 == IF last THEN Append(kept, r) ELSE kept
         IN  IF tm = -1 THEN [rows |-> k1, err |-> "UnboundLocalError"]
             ELSE MonthlyRows(dates, r + 1, tm,
                              IF tm # month(PyIndex(dates, r)) THEN Append(k1, r) ELSE k1)

\* returnsAnalysis.__pruneData__: the rows of the strategy's output kept
pruneRows(dates, first, granularity) ==
    IF granularity = "Daily"
    THEN [rows |-> [k \in 1..(Len(dates) - first) |-> first + k - 1], err |-> "none"]
    ELSE MonthlyRows(dates, first + 1, -1, <<first>>)

\* the datasets __rowAtDate__ is called on for a bin, in the order of lines
\* 444-451, and the initial offset of the analysis of each
CallDataset(c) ==
    <<"Strategy", "Strategy", "Drawdowns", "Drawdowns", "Returns", "Returns">>[c + 1]
CallTarget(b, c) == binLimits(b)[(c % 2) + 1]
NumCalls == 6
\* a slip: every analysis searched from its row 0
AnalysisOffsetZero(key) == 0
AnalysisOffset(key) == IF key = "Strategy" THEN strategy_offset ELSE 0

\* lines 420-437: the strategy, the benchmark and the preliminary analyses
\* are run and their output read
SAReadInput ==
    /\ sa_pc = "preliminaries"
    /\ LET daily == pruneRows(strategy_dates, strategy_offset, "Daily")
           monthly == pruneRows(strategy_dates, strategy_offset, "Monthly")
       IN  IF monthly.err # "none"
           THEN /\ sa_status' = monthly.err
                /\ sa_pc' = "raised"
                /\ sa_input' = sa_input
           ELSE /\ sa_status' = "running"
                /\ sa_pc' = "call"
                /\ sa_input' =
                     [key \in {"Strategy", "Drawdowns", "Returns"} |->
                        CASE key = "Strategy" -> strategy_dates
                          [] key = "Drawdowns" ->
                               [k \in 1..Len(daily.rows) |->
                                   PyIndex(strategy_dates, daily.rows[k])]
                          [] key = "Returns" ->
                               [k \in 1..Len(monthly.rows) |->
                                   PyIndex(strategy_dates, monthly.rows[k])]]
    /\ UNCHANGED <<binning, strategy_period, low_bin_edges, strategy_dates,
                   strategy_offset, bin, call, lower, upper, row_limits, sa_output>>
    /\ UNCHANGED notSA

\* __rowAtDate__ returns a row to run(): the next call, or the bin's columns
RowAtDateReturn(r) ==
    /\ row_limits' = Append(row_limits, r)
    /\ call' = call + 1
    /\ sa_pc' = IF call + 1 = NumCalls THEN "analyse" ELSE "call"

\* __rowAtDate__, lines 174-181: the tests at the boundaries
RowAtDateCall ==
    /\ sa_pc = "call"
    /\ LET dates == sa_input[CallDataset(call)]
           test_date == CallTarget(bin, call)
           lo == AnalysisOffset(CallDataset(call))
           up == Len(dates) - 1
       IN  IF PyIndex(dates, lo) >= test_date
           THEN RowAtDateReturn(lo) /\ UNCHANGED <<lower, upper>>
           ELSE IF PyIndex(dates, up) <= test_date
           THEN RowAtDateReturn(up) /\ UNCHANGED <<lower, upper>>
           ELSE /\ lower' = lo
                /\ upper' = up
                /\ sa_pc' = "search"
                /\ UNCHANGED <<row_limits, call>>
    /\ UNCHANGED <<binning, strategy_period, low_bin_edges, strategy_dates,
                   strategy_offset, sa_input, bin, sa_output, sa_status>>
    /\ UNCHANGED notSA

\* middle = (lower + upper)/2, an integer division
middle(lo, up) == (lo + up) \div 2

\* __rowAtDate__, lines 184-194: one turn of the "while True" loop
RowAtDateSearch ==
    /\ sa_pc = "search"
    /\ LET dates == sa_input[CallDataset(call)]
           test_date == CallTarget(bin, call)
           m == middle(lower, upper)
       IN  IF PyIndex(dates, m - 1) < test_date /\ PyIndex(dates, m) >= test_date
           THEN RowAtDateReturn(m) /\ UNCHANGED <<lower, upper>>
           ELSE IF PyIndex(dates, m) < test_date
           THEN /\ lower' = m
                /\ UNCHANGED <<upper, row_limits, call, sa_pc>>
           ELSE /\ upper' = m
                /\ UNCHANGED <<lower, row_limits, call, sa_pc>>
    /\ UNCHANGED <<binning, strategy_period, low_bin_edges, strategy_dates,
                   strategy_offset, sa_input, bin, sa_output, sa_status>>
    /\ UNCHANGED notSA

\* the cells of a ratio column: the "NaN" marker, or a number
NaN == <<"NaN">>
Number == <<"number">>

\* __monthly_risk_free_rate__ = 1.05**(1/12) - 1, to three decimals
monthly_risk_free_rate == Rat(4, 1000)

\* the monthly returns a bin is tried with, and math.log(1 + x) of each, to
\* three decimals: the Return cell of "log Returns" on the row where
\* "Returns" holds x
ReturnValues == {Rat(-1, 10), Rat(1, 10)}
logReturn(x) ==
    CASE x = Rat(-1, 10) -> Rat(-105, 1000)
      [] x = RZero -> RZero
      [] x = Rat(1, 10) -> Rat(95, 1000)
\* the monthly returns of the benchmark a bin is tried with
BenchmarkValues == {Rat(-1, 10), Rat(1, 10)}
\* the Return cells of n rows: one value on every row, or two in turn
Columns(values, n) ==
    {[k \in 1..n |-> IF k % 2 = 1 THEN u ELSE v] : u, v \in values}
\* the largest drawdowns a bin is tried with
DrawdownValues == {RZero, Rat(1, 2)}

\* __meanSdevReturns__ over the values xs of the rows of the bin, each
\* already less the benchmark return or the risk free rate as the flavour
\* asks: lines 240 and 255 divide by n and by n - 1.0
meanSdevReturns(xs) ==
    LET n == Len(xs)
        mean_x == RDiv(RSum(xs), RInt(n))
        rsq_x == RSum([k \in 1..n |-> RMul(RSub(xs[k], mean_x), RSub(xs[k], mean_x))])
    IN  IF n = 0 \/ n = 1 THEN [err |-> "ZeroDivisionError", mean |-> RZero, var |-> RZero]
        ELSE [err |-> "none", mean |-> mean_x, var |-> RDiv(rsq_x, RInt(n - 1))]

\* the values __meanSdevReturns__ sums for a flavour: x the returns, b the
\* benchmark returns of the rows of the bin
Flavoured(x, b, flavour) ==
    [k \in 1..Len(x) |->
        CASE flavour = "Benchmark" -> RSub(x[k], b[k])
          [] flavour = "RFR" -> RSub(x[k], monthly_risk_free_rate)
          [] flavour = "CAGR" -> RSub(logReturn(x[k]), monthly_risk_free_rate)
          [] OTHER -> x[k]]

\* __SharpeRatio__: "NaN" when sdev == 0.0 (sdev is sqrt(12 var), and for
\* "CAGR" that times e**mean), else mean/sdev
SharpeRatio(x, b, flavour) ==
    LET ms == meanSdevReturns(Flavoured(x, b, flavour))
    IN  IF ms.err # "none" THEN [err |-> ms.err, cell |-> NaN]
        ELSE [err |-> "none", cell |-> IF ms.var = RZero THEN NaN ELSE Number]

\* __downsideSdevReturns__: the variance of lines 358-398
downsideVar(x) ==
    LET up == SelectSeq(x, LAMBDA v : ~ RLt(v, RZero))
        down == SelectSeq(x, LAMBDA v : RLt(v, RZero))
        n == Len(up)
        mean_x == IF n < 1 THEN RZero
                  ELSE RDiv(RSum([k \in 1..n |-> RSub(up[k], monthly_risk_free_rate)]),
                            RInt(n))
        res_xx == RSum([k \in 1..Len(down) |->
                     LET v == RSub(RSub(down[k], monthly_risk_free_rate), mean_x)
                     IN  RMul(v, v)])
    IN  IF n < 2 THEN RZero ELSE RDiv(res_xx, RInt(n - 1))

\* __SortinoRatio__
SortinoRatio(x) ==
    LET ms == meanSdevReturns(Flavoured(x, x, "Plain"))
    IN  IF ms.err # "none" THEN [err |-> ms.err, cell |-> NaN]
        ELSE [err |-> "none", cell |-> IF downsideVar(x) = RZero THEN NaN ELSE Number]

\* an exception leaves run()
SARaise(method, exception) ==
    /\ sa_status' = exception
    /\ sa_pc' = method
    /\ UNCHANGED <<bin, call, row_limits, sa_output>>

\* lines 453-498: the columns of bin i are computed from the rows found.
\* The rows of the strategy between its limits number n: __CAGR__ divides by
\* the days between the two rows, __regressedCAGR__ by n, by the spread of
\* n row numbers and by n - 2.0.  The Return cells of the bin's rows, of the
\* strategy (x) and of the benchmark (b), and the largest Drawdown cell of
\* the bin are inputs.
AnalyseBin ==
    /\ sa_pc = "analyse"
    /\ LET n == row_limits[2] - row_limits[1]
           months == row_limits[6] - row_limits[5]
       IN  IF n = 0 THEN SARaise("__CAGR__", "ZeroDivisionError")
           ELSE IF n <= 2 THEN SARaise("__regressedCAGR__", "ZeroDivisionError")
           ELSE \E x \in Columns(ReturnValues, months), b \in Columns(BenchmarkValues, months),
                   max_drawdown \in DrawdownValues :
                  LET mar == IF max_drawdown = RZero THEN NaN ELSE Number
                      rfr == SharpeRatio(x, b, "RFR")
                      cagr == SharpeRatio(x, b, "CAGR")
                      bench == SharpeRatio(x, b, "Benchmark")
                      sortino == SortinoRatio(x)
                  IN  IF rfr.err # "none"
                      THEN SARaise("__meanSdevReturns__", rfr.err)
                      ELSE /\ sa_output' = Append(sa_output,
                                  [MAR |-> mar, MARRegressed |-> mar,
                                   Sharpe |-> rfr.cell, SharpeCAGR |-> cagr.cell,
                                   SharpeBenchmark |-> bench.cell,
                                   Sortino |-> sortino.cell])
                           /\ bin' = bin + 1
                           /\ call' = 0
                           /\ row_limits' = <<>>
                           /\ sa_pc' = IF bin + 1 < Len(low_bin_edges) - 1
                                       THEN "call" ELSE "store"
                           /\ sa_status' = sa_status
    /\ UNCHANGED <<binning, strategy_period, low_bin_edges, strategy_dates,
                   strategy_offset, sa_input, lower, upper>>
    /\ UNCHANGED notSA

\* lines 500-502: the output is written and run() returns
SAStore ==
    /\ sa_pc = "store"
    /\ sa_pc' = "returned"
    /\ sa_status' = "finished"
    /\ UNCHANGED <<binning, strategy_period, low_bin_edges, strategy_dates,
                   strategy_offset, sa_input, bin, call, lower, upper,
                   row_limits, sa_output>>
    /\ UNCHANGED notSA

SANext == SAReadInput \/ RowAtDateCall \/ RowAtDateSearch \/ AnalyseBin \/ SAStore

SpecSA == SAInit /\ [][SANext]_vars


(***************************************************************************)
(* C14: with "Annual" binning over a period from year Y0 to year Y1 the    *)
(* edges are the period's start, the 1 January of each later year and the  *)
(* day after the period's end: Y1 - Y0 + 1 bins, strictly increasing       *)
(* edges, and every day of the period in exactly one half-open bin; with   *)
(* "All" binning there is one bin over the whole period.                   *)
(***************************************************************************)
C14_BinEdges ==
    LET bins == Len(low_bin_edges) - 1
        Y0 == year(strategy_period[1])
        Y1 == year(strategy_period[2])
    IN  /\ binning = "Annual" =>
              /\ bins = Y1 - Y0 + 1
              /\ \A k \in 2..bins : low_bin_edges[k] = FirstOfJanuary(Y0 + k - 1)
        /\ binning = "All" => bins = 1
        /\ binLimits(0)[1] = strategy_period[1]
        /\ binLimits(bins - 1)[2] = strategy_period[2] + one_day
        /\ \A b \in 0..(bins - 1) : binLimits(b)[1] < binLimits(b)[2]
        /\ \A day \in strategy_period[1]..strategy_period[2] :
              Cardinality({b \in 0..(bins - 1) :
                              binLimits(b)[1] <= day /\ day < binLimits(b)[2]}) = 1

\* two calendar years, the first not begun on its 1 January: two bins, both met
C14_Witness ==
    /\ binning = "Annual"
    /\ year(strategy_period[2]) = year(strategy_period[1]) + 1
    /\ strategy_period[1] # FirstOfJanuary(year(strategy_period[1]))
    /\ Len(low_bin_edges) = 3
    /\ sa_status = "finished"
    /\ Len(sa_output) = 2


(***************************************************************************)
(* C15: every row __rowAtDate__ returns is the lowest row, from the        *)
(* initial offset of the analysis on, whose date is on or after the        *)
(* target: the first analysed row when the target is on or before its      *)
(* date, and the last row when the target is on or after the last date.    *)
(***************************************************************************)
C15_RowAtDate ==
    \A k \in 1..Len(row_limits) :
        LET key == CallDataset(k - 1)
            dates == sa_input[key]
            test_date == CallTarget(bin, k - 1)
            first == IF key = "Strategy" THEN strategy_offset ELSE 0
            last == Len(dates) - 1
            after == {r \in first..last : PyIndex(dates, r) >= test_date}
            r == row_limits[k]
        IN  /\ r \in first..last
            /\ after # {} => (r \in after /\ \A q \in after : r <= q)
            /\ after = {} => r = last
            /\ PyIndex(dates, first) >= test_date => r = first
            /\ PyIndex(dates, last) <= test_date => r = last

\* the six rows of a later bin found, one by the search strictly inside the
\* analysed rows of a strategy whose first row is not analysed
C15_Witness ==
    /\ sa_pc = "analyse"
    /\ bin = 1
    /\ strategy_offset = 1
    /\ Len(row_limits) = NumCalls
    /\ strategy_offset < row_limits[1]
    /\ row_limits[1] < Len(strategy_dates) - 1
    /\ PyIndex(strategy_dates, row_limits[1] - 1) < CallTarget(bin, 0)
    /\ PyIndex(strategy_dates, row_limits[1]) > CallTarget(bin, 0)
    /\ row_limits[2] = Len(strategy_dates) - 1


(***************************************************************************)
(* C16: a run always finishes: the search loop of __rowAtDate__ returns a  *)
(* row, whatever the ascending Date column and the target between the      *)
(* first and the last analysed dates, a target between the dates of the    *)
(* last two rows included.  The loop has no other state than lower and     *)
(* upper: it ends if and only if every turn that does not return moves one *)
(* of them.                                                                *)
(***************************************************************************)
C16_SearchReturns ==
    sa_pc = "search" =>
        LET dates == sa_input[CallDataset(call)]
            test_date == CallTarget(bin, call)
            m == middle(lower, upper)
        IN  \/ PyIndex(dates, m - 1) < test_date /\ PyIndex(dates, m) >= test_date
            \/ PyIndex(dates, m) < test_date /\ m > lower
            \/ PyIndex(dates, m) >= test_date /\ m < upper


(***************************************************************************)
(* C18: for every bin, a ratio whose denominator is zero is reported as    *)
(* the "NaN" marker and the ratio columns raise no division error, a bin   *)
(* of no or of one monthly return row included.                            *)
(***************************************************************************)
C18_RatiosNeverRaise ==
    /\ ~ (sa_status = "ZeroDivisionError" /\ sa_pc = "__meanSdevReturns__")
    /\ \A k \in 1..Len(sa_output) :
          \A column \in DOMAIN sa_output[k] : sa_output[k][column] \in {NaN, Number}


(***************************************************************************)
(* C17: when the variance preliminary is 0 at a row, the calculation of    *)
(* GRAD, EWGRAD, GRADERR or EWGRADERR at that row does not raise: run()    *)
(* is still running after it and goes on to the other rows.                *)
(***************************************************************************)
C17_ZeroVarianceSentinel ==
    [][(/\ status = "running"
        /\ Frame.pc = "rows"
        /\ Frame.row_ < NumRows(Frame)
        /\ ClassOf(Frame.node) \in {"GRAD", "EWGRAD", "GRADERR", "EWGRADERR"}
        /\ Preliminary(ClassOf(Frame.node), lookback_days, Frame.input, "var",
                       Frame.i, Frame.row_)[1] = 0)
          => (/\ status' = "running"
              /\ stack' # <<>>
              /\ Len(stack'[Len(stack')].results) = Len(Frame.results) + 1)]_vars


(***************************************************************************)
(* C19: an indicator with a lookback window below 1 is refused at          *)
(* construction: no row of it is ever computed and no run() of it          *)
(* produces output.                                                        *)
(***************************************************************************)
C19_LookbackBelowOneFailsFast ==
    (\E k \in DOMAIN lookback_days : lookback_days[k] < 1) =>
        /\ status # "finished"
        /\ stack # <<>> => Frame.results = <<>>
        /\ \A n \in DOMAIN written : written[n] = None


(***************************************************************************)
(* C20: when the decision rule of a strategy looks up a column of a        *)
(* preliminary that does not exist (DualMA given fewer than two windows),  *)
(* the run fails before any row is computed: when the error leaves run()   *)
(* no row of the preliminary and none of the strategy has been computed    *)
(* or stored.                                                              *)
(***************************************************************************)
C20_MissingKeyFailsFirst ==
    (variant = "DualMA" /\ pc = "IndexError") =>
        /\ results = <<>>
        /\ \A f \in DOMAIN files : files[f] = None
        /\ \A f \in DOMAIN stores : stores[f] = 0


(***************************************************************************)
(* C21: when the initial offset of an indicator is the number of rows of   *)
(* its input or more, run() completes without an error and every cell of   *)
(* every output column is the not-available marker.                        *)
(***************************************************************************)
C21_WarmUpBeyondData ==
    (/\ top # "none"
     /\ \A n \in Nodes(top) : \A i \in Slots :
            initialAnalysisPeriod(ClassOf(n), lookback_days, i) >= NumPriceRows)
       => /\ status \in {"built", "running", "finished"}
          /\ \A n \in Nodes(top) : written[n] # None =>
                \A r \in 2..Len(written[n]) : \A col \in 2..Len(written[n][r]) :
                    written[n][r][col] = Empty


(***************************************************************************)
(* The analysis period (timeseries.py): __setAnalysisPeriod__, called by   *)
(* __init__ of every price indicator and trading system, and               *)
(* __pruneData__, called by run() on the data of input_data.  A date is    *)
(* the number of its day.                                                  *)
(***************************************************************************)
\* the latest day of a stored row; a period is asked for from day 0 to the
\* day after it
MaxDay == 5

\* the Date columns of a price file: ascending, at least one row
StoredDateColumns ==
    {dates \in UNION {[1..n -> 1..MaxDay] : n \in 1..MaxDay} :
        \A k \in 1..(Len(dates) - 1) : dates[k] < dates[k + 1]}

\* input_data.__getStoredPeriod__(): the oldest and the newest stored date
getStoredPeriod(dates) == <<dates[1], dates[Len(dates)]>>

\* a slip: only the start of the period is cut to the stored one
setAnalysisPeriodStartOnly(period, input_data_period) ==
    <<IF period[1] < input_data_period[1] THEN input_data_period[1] ELSE period[1],
      period[2]>>

\* __setAnalysisPeriod__(analysis_period)
setAnalysisPeriod(period, input_data_period) ==
    <<IF period[1] < input_data_period[1] THEN input_data_period[1] ELSE period[1],
      IF period[2] > input_data_period[2] THEN input_data_period[2] ELSE period[2]>>

\* __pruneData__ on the Date column, over self.analysis_period
prunedDates(dates, period) ==
    Keep(dates, [k \in 1..Len(dates) |->
                    ~ (dates[k] < period[1]) /\ ~ (dates[k] > period[2])])

APInit ==
    /\ requested_period \in (0..(MaxDay + 1)) \X (0..(MaxDay + 1))
    /\ stored_dates \in StoredDateColumns
    /\ clamped_period = <<>>
    /\ pruned_dates = <<>>
    /\ ap_pc = "new"
    /\ TSIdle
    /\ RunIdle
    /\ DDIdle
    /\ SAIdle
    /\ RerunIdle
    /\ GradIdle
    /\ BinIdle
    /\ OtherIdle

\* __init__, line 53
SetAnalysisPeriod ==
    /\ ap_pc = "new"
    /\ clamped_period' = setAnalysisPeriod(requested_period, getStoredPeriod(stored_dates))
    /\ ap_pc' = "built"
    /\ UNCHANGED <<requested_period, stored_dates, pruned_dates>>
    /\ UNCHANGED notAP

\* run(), line 184
PruneData ==
    /\ ap_pc = "built"
    /\ pruned_dates' = prunedDates(stored_dates, clamped_period)
    /\ ap_pc' = "pruned"
    /\ UNCHANGED <<requested_period, stored_dates, clamped_period>>
    /\ UNCHANGED notAP

APNext == SetAnalysisPeriod \/ PruneData

SpecAP == APInit /\ [][APNext]_vars

(***************************************************************************)
(* C22: after construction the analysis period starts no earlier than the  *)
(* oldest stored date and ends no later than the newest, and the rows      *)
(* handed to the row loop are the stored rows dated within that closed     *)
(* period, in their order.                                                 *)
(***************************************************************************)
C22_PeriodInsideStored ==
    ap_pc \in {"built", "pruned"} =>
        /\ clamped_period[1] >= stored_dates[1]
        /\ clamped_period[2] <= stored_dates[Len(stored_dates)]
        /\ ap_pc = "pruned" =>
              pruned_dates =
                 SelectSeq(stored_dates,
                           LAMBDA day : clamped_period[1] <= day /\ day <= clamped_period[2])

\* a period asked for from before the oldest row to before the newest: cut
\* at its start, and some but not all rows kept
C22_Witness ==
    /\ ap_pc = "pruned"
    /\ requested_period[1] < stored_dates[1]
    /\ requested_period[2] < stored_dates[Len(stored_dates)]
    /\ clamped_period = <<stored_dates[1], requested_period[2]>>
    /\ Len(pruned_dates) >= 2
    /\ Len(pruned_dates) < Len(stored_dates)


(***************************************************************************)
(* run() called again on the trading system that has run: run() builds a  *)
(* new results list and starts its row loop at the offset again            *)
(* (timeseries.py 192-203); equity, debt, __position__ and __stop__ are    *)
(* assigned by __init__ and by __calculation__ only.                       *)
(***************************************************************************)
\* the number of run() calls after the first
MaxReruns == 1

\* a slip: run() starts from the values of __init__
RunAgainReset ==
    /\ pc = "done"
    /\ ts_pass < MaxReruns
    /\ ts_pass' = ts_pass + 1
    /\ previous_pass' = <<LastRow[1], LastRow[2], LastRow[3], stop>>
    /\ results' = <<>>
    /\ row' = offset
    /\ pc' = "update"
    /\ equity' = init_equity
    /\ debt' = RZero
    /\ position' = 0
    /\ stop' = RZero
    /\ UNCHANGED <<variant, closes, offset, init_equity, atRowStart, updated, afterExit>>
    /\ UNCHANGED notRerun

\* run(), once more: previous_pass keeps what the last __calculation__ of
\* the pass before returned, and the stop it left
RunAgain ==
    /\ pc = "done"
    /\ ts_pass < MaxReruns
    /\ ts_pass' = ts_pass + 1
    /\ previous_pass' = <<LastRow[1], LastRow[2], LastRow[3], stop>>
    /\ results' = <<>>
    /\ row' = offset
    /\ pc' = "update"
    /\ UNCHANGED <<variant, closes, offset, init_equity, equity, debt, position,
                   stop, atRowStart, updated, afterExit>>
    /\ UNCHANGED notRerun

TSAgainNext == TSNext \/ RunAgain

\* the trading systems run again: those built with the default equity, on
\* the series that start at a close of 1
TSAgainInit ==
    /\ TSInit
    /\ init_equity = RInt(DefaultEquity)
    /\ closes[1] = 1

SpecTSAgain == TSAgainInit /\ [][TSAgainNext]_vars

(***************************************************************************)
(* C23: run() does not reset the recurrence state: the first row of a      *)
(* second run() on the same trading system is computed from the position,  *)
(* equity and debt the first pass ended with, with its stop still set.     *)
(***************************************************************************)
C23_SecondRunCarriesOver ==
    (ts_pass >= 1 /\ results = <<>>) =>
        /\ pc = "update" =>
              <<position, equity, debt, stop>> = previous_pass
        /\ pc \in {"debt", "exit", "enter"} =>
              /\ atRowStart.position = previous_pass[1]
              /\ atRowStart.equity = previous_pass[2]
              /\ atRowStart.debt = previous_pass[3]
              /\ equity = IF Insolvent(updated) THEN equity
                          ELSE UpdatedEquity(previous_pass[2], previous_pass[1],
                                             PyIndex(closes, row),
                                             PyIndex(closes, row - 1))

\* the second pass has updated the equity of its first row, from a position
\* and an equity that are not those of __init__
C23_Witness ==
    /\ ts_pass = 1
    /\ results = <<>>
    /\ pc = "debt"
    /\ atRowStart.position = -1
    /\ atRowStart.equity # init_equity
    /\ previous_pass[4] # RZero
    /\ equity # atRowStart.equity


(***************************************************************************)
(* C24: running an indicator leaves the objects of its preliminaries as    *)
(* they were built: after any number of reads through __getCsvData__ the   *)
(* headers list of each has the content and the length __init__ gave it.   *)
(***************************************************************************)
C24_ReadsLeaveHeaders ==
    top # "none" =>
        \A n \in DOMAIN inst :
            /\ inst[n].headers = setHeaders(ClassOf(n), lookback_days)
            /\ Len(inst[n].headers) = Len(lookback_days) + 1


(***************************************************************************)
(* The seed of an exponentially weighted average, written out from the     *)
(* first SeedLength rows of the price columns.                             *)
(***************************************************************************)
SeedRows == 0..(SeedLength - 1)
SeedCloses == [k \in 1..SeedLength |-> PyIndex(price[<<"Close">>], k - 1)]
SeedMean == RDiv(RSum(SeedCloses), RInt(SeedLength))
SeedDay == RDiv(RSum([k \in 1..SeedLength |-> RInt(k - 1)]), RInt(SeedLength))
SeedVar ==
    RDiv(RSum([k \in 1..SeedLength |->
                  RMul(RSub(SeedCloses[k], SeedMean), RSub(SeedCloses[k], SeedMean))]),
         RInt(SeedLength - 1))
\* the "ma" and the "maday" column of EWCOV are read from one file, named
\* after the analysis_type "EWMA" of both: ma and maday are its row SeedLength
SeedCov(ma, maday) ==
    RDiv(RSum([k \in 1..SeedLength |->
                  RMul(RSub(SeedCloses[k], ma), RSub(RInt(k - 1), maday))]),
         RInt(SeedLength - 1))
SeedTrueRange(r) ==
    LET high == PyIndex(price[<<"High">>], r)
        low == PyIndex(price[<<"Low">>], r)
        before == PyIndex(price[<<"Close">>], r - 1)
        ranges == IF r = 0 THEN {RSub(high, low)}
                  ELSE {RSub(high, low), RAbs(RSub(before, high)), RAbs(RSub(before, low))}
    IN  CHOOSE x \in ranges : \A y \in ranges : ~ RLt(x, y)
SeedRange == RDiv(RSum([k \in 1..SeedLength |-> SeedTrueRange(k - 1)]), RInt(SeedLength))

SeedValues(c) ==
    CASE c = "EWMA" -> {SeedMean}
      [] c = "EWMADAY" -> {SeedDay}
      [] c = "EWVAR" -> {SeedVar}
      [] c = "EWCOV" -> {SeedCov(SeedMean, SeedMean), SeedCov(SeedDay, SeedDay)}
      [] c = "EWATR" -> {SeedRange}

(***************************************************************************)
(* C25: the offset of EWMA, EWVAR, EWMADAY, EWCOV and EWATR is SeedLength  *)
(* for every slot, whatever the windows and with preliminaries too; their  *)
(* stored columns are empty before row SeedLength and hold there the seed  *)
(* computed from rows 0 .. SeedLength-1 alone; the columns of EWGRAD and   *)
(* EWGRADERR start at row SeedLength as well.                              *)
(***************************************************************************)
C25_SeedAtRowFive ==
    top # "none" =>
        \A n \in Nodes(top) :
            LET c == ClassOf(n)
            IN  c \in ExponentialWeighting \cup {"EWGRAD", "EWGRADERR"} =>
                  \A i \in Slots :
                     /\ initialAnalysisPeriod(c, lookback_days, i) = SeedLength
                     /\ written[n] # None =>
                           LET data == getCsvData(setHeaders(c, lookback_days), written[n])
                               col == data[Header(analysis_type(c), PyIndex(lookback_days, i))]
                           IN  /\ \A r \in SeedRows : PyIndex(col, r) = Empty
                               /\ PyIndex(col, SeedLength) # Empty
                               /\ c \in ExponentialWeighting =>
                                     \E v \in SeedValues(c) :
                                        PyIndex(col, SeedLength) = ReadBack(v)

\* EWVAR, run with two windows on a series that is not constant, has stored
\* its file: both columns start at row SeedLength with the same seed
C25_Witness ==
    /\ top = "EWVAR"
    /\ status = "finished"
    /\ Len(lookback_days) = 2
    /\ ~ ConstantClose
    /\ LET data == StoredColumns("EWVAR")
       IN  /\ PyIndex(data[Header("EWVAR", lookback_days[1])], SeedLength) = ReadBack(SeedVar)
           /\ PyIndex(data[Header("EWVAR", lookback_days[2])], SeedLength) = ReadBack(SeedVar)
           /\ SeedVar # RZero


(***************************************************************************)
(* GradSig and GradConf (portfolio/strategy.py): trading systems with the  *)
(* preliminaries "grad" (EWGRAD) and "gerr" (EWGRADERR), whose columns for *)
(* lookback[0] are read before the row loop.  The two classes differ in    *)
(* the threshold of the significance filter only: n_sigma, or the          *)
(* critical t-value.                                                       *)
(***************************************************************************)
\* the number of rows from the offset on
NGradRows == 3

GradValues == {RInt(-1), RZero, RInt(1)}
GerrValues == {RZero, Rat(1, 4)}
Thresholds == {Rat(1, 2), RInt(3)}

\* a column of a preliminary: empty before the offset, a value from it on
GradColumns(values) ==
    {[k \in 1..(SeedLength + NGradRows) |-> IF k <= SeedLength THEN Empty ELSE col[k - SeedLength]] :
        col \in [1..NGradRows -> values]}

GradInit ==
    /\ variant \in {"GradSig", "GradConf"}
    /\ closes \in {[k \in 1..(SeedLength + NGradRows) |->
                       IF k < SeedLength THEN 1 ELSE cl[k - SeedLength + 1]] :
                     cl \in [1..(NGradRows + 1) -> 1..2]}
    /\ offset = SeedLength
    /\ init_equity = RInt(DefaultEquity)
    /\ equity = init_equity
    /\ debt = RZero
    /\ position = 0
    /\ stop = RZero
    /\ row = offset
    /\ pc = "rows"
    /\ atRowStart = [position |-> 0, equity |-> init_equity, debt |-> RZero]
    /\ updated = init_equity
    /\ afterExit = 0
    /\ results = <<>>
    /\ grad_column \in GradColumns(GradValues)
    /\ gerr_column \in GradColumns(GerrValues)
    /\ threshold \in Thresholds
    /\ RunIdle
    /\ DDIdle
    /\ SAIdle
    /\ APIdle
    /\ RerunIdle
    /\ BinIdle
    /\ OtherIdle

\* a slip: no test of gerr, and a filter that holds where the quotient has
\* no value
gradFilterUntested(r) ==
    \/ PyIndex(gerr_column, r) = RZero
    \/ RLt(threshold, RAbs(RDiv(PyIndex(grad_column, r), PyIndex(gerr_column, r))))

\* if gerr==0.0: filter = False / else: filter = math.fabs(grad/gerr) > threshold
gradFilter(r) ==
    IF PyIndex(gerr_column, r) = RZero THEN FALSE
    ELSE RLt(threshold, RAbs(RDiv(PyIndex(grad_column, r), PyIndex(gerr_column, r))))

GradgoLong(r) == gradFilter(r) /\ RLt(RZero, PyIndex(grad_column, r))
GradgoShort(r) == gradFilter(r) /\ RLt(PyIndex(grad_column, r), RZero)
\* a slip: a Long position also closed by a falling gradient
GradexitLongSigned(r) == ~ gradFilter(r) \/ RLt(PyIndex(grad_column, r), RZero)
\* __exitLong__: not filter
GradexitLong(r) == ~ gradFilter(r)
GradexitShort(r) == GradexitLong(r)

\* one call of tradingSystem.__calculation__ on a GradSig or a GradConf
GradCalculation ==
    /\ variant \in {"GradSig", "GradConf"}
    /\ pc = "rows"
    /\ row < Len(closes)
    /\ LET e == UpdatedEquity(equity, position, PyIndex(closes, row),
                              PyIndex(closes, row - 1))
           equity2 == IF Insolvent(e) THEN init_equity ELSE e
           debt2 == IF Insolvent(e)
                    THEN RAdd(RAdd(debt, RMul(RInt(-1), e)), init_equity)
                    ELSE debt
           exited == CASE position = 1 -> IF GradexitLong(row) THEN 0 ELSE 1
                       [] position = -1 -> IF GradexitShort(row) THEN 0 ELSE -1
                       [] OTHER -> position
           entered == IF exited # 0 THEN exited
                      ELSE IF GradgoLong(row) THEN 1
                      ELSE IF GradgoShort(row) THEN -1
                      ELSE 0
       IN  /\ equity' = equity2
           /\ debt' = debt2
           /\ updated' = e
           /\ atRowStart' = [position |-> position, equity |-> equity, debt |-> debt]
           /\ position' = entered
           /\ stop' = IF exited = 0 /\ entered # 0 THEN RZero ELSE stop
           /\ afterExit' = exited
           /\ results' = Append(results, <<entered, equity2, debt2>>)
           /\ row' = row + 1
           /\ pc' = IF row + 1 < Len(closes) THEN "rows" ELSE "done"
    /\ UNCHANGED <<variant, closes, offset, init_equity>>
    /\ UNCHANGED notTS

GradNext == GradCalculation

SpecGrad == GradInit /\ [][GradNext]_vars

(***************************************************************************)
(* C26: on a row whose gerr is 0 the ratio grad/gerr is not formed, the    *)
(* filter is false, no entry test holds and the exit test holds: whatever  *)
(* the position before the row, a GradSig or GradConf is Flat after it.    *)
(***************************************************************************)
C26_ZeroErrorGoesFlat ==
    (variant \in {"GradSig", "GradConf"} /\ results # <<>>
        /\ PyIndex(gerr_column, row - 1) = RZero) =>
            /\ position = 0
            /\ LastRow[1] = 0
            /\ afterExit = 0

\* a row with gerr 0 and a gradient that is not, reached Long: the
\* position is closed and none is opened
C26_Witness ==
    /\ variant = "GradConf"
    /\ results # <<>>
    /\ PyIndex(gerr_column, row - 1) = RZero
    /\ PyIndex(grad_column, row - 1) = RInt(1)
    /\ atRowStart.position = 1
    /\ position = 0


\* the rows a monthly series is to keep: the offset row, each later row
\* whose next row lies in another month, and the final row, each once
MonthEnds(dates, first) ==
    LET last == Len(dates) - 1
        keep == [k \in 1..Len(dates) |->
                    \/ k - 1 = first
                    \/ k - 1 > first /\ k - 1 = last
                    \/ k - 1 > first /\ k - 1 < last
                         /\ month(dates[k + 1]) # month(dates[k])]
    IN  Keep(dates, keep)

(***************************************************************************)
(* C27: for an output of the strategy with at least one row after the      *)
(* offset row, the monthly __pruneData__ returns, and keeps the offset     *)
(* row, the later rows followed by a row of another month and the final    *)
(* row, each once; the daily one keeps every row from the offset on.       *)
(***************************************************************************)
C27_MonthlyPruneCompletes ==
    (sa_pc # "preliminaries" /\ Len(strategy_dates) >= strategy_offset + 2) =>
        /\ sa_status # "UnboundLocalError"
        /\ sa_input # None
        /\ sa_input["Returns"] = MonthEnds(strategy_dates, strategy_offset)
        /\ sa_input["Drawdowns"]
              = SubSeq(strategy_dates, strategy_offset + 1, Len(strategy_dates))


(***************************************************************************)
(* __listTrades__ and __countTrades__ (strategy.py), on the output of a    *)
(* trading system that has run.  The date of a row is its number.          *)
(***************************************************************************)
TBC == <<"TBC">>

\* input["Position"][r], input["Equity"][r], input["Date"][r] of the output
\* of the strategy, for a row r from the offset on
PositionAt(r) == results[r - offset + 1][1]
EquityAt(r) == results[r - offset + 1][2]
DateAt(r) == r

\* the loop of __listTrades__ from row r on, t holding the four lists
RECURSIVE listTradesFrom(_, _)
listTradesFrom(r, t) ==
    IF r > Len(closes) - 1 THEN t
    ELSE IF PositionAt(r) = PositionAt(r - 1) THEN listTradesFrom(r + 1, t)
    ELSE LET exits == Len(t.entry_date) # 0 /\ PositionAt(r - 1) # 0
             enters == PositionAt(r) # 0
         IN  listTradesFrom(r + 1,
                [entry_date |-> IF enters THEN Append(t.entry_date, DateAt(r))
                                ELSE t.entry_date,
                 entry_equity |-> IF enters THEN Append(t.entry_equity, EquityAt(r))
                                  ELSE t.entry_equity,
                 exit_date |-> IF exits THEN Append(t.exit_date, DateAt(r))
                               ELSE t.exit_date,
                 exit_equity |-> IF exits THEN Append(t.exit_equity, EquityAt(r))
                                 ELSE t.exit_equity])

\* a slip: an ongoing trade is left without its "TBC" exit
listTradesOpenEnded ==
    listTradesFrom(offset + 1,
        [entry_date |-> <<>>, entry_equity |-> <<>>,
         exit_date |-> <<>>, exit_equity |-> <<>>])

\* __listTrades__(input["Strategy"])
listTrades ==
    LET t == listTradesFrom(offset + 1,
                 [entry_date |-> <<>>, entry_equity |-> <<>>,
                  exit_date |-> <<>>, exit_equity |-> <<>>])
    IN  IF Len(t.entry_date) > Len(t.exit_date)
        THEN [t EXCEPT !.exit_date = Append(@, TBC), !.exit_equity = Append(@, TBC)]
        ELSE t

\* __countTrades__(trade_list, bin_limits)
countTrades(t, bin_limits) ==
    LET inBin == {k \in 1..Len(t.entry_date) :
                     t.entry_date[k] >= bin_limits[1] /\ t.entry_date[k] < bin_limits[2]}
        won == {k \in inBin :
                   /\ t.exit_equity[k] # TBC
                   /\ RLt(t.entry_equity[k], t.exit_equity[k])}
        trades == Cardinality(inBin)
        wins == Cardinality(won)
    IN  [bin_limits |-> bin_limits, trades |-> trades, wins |-> wins,
         win_ratio |-> IF trades = 0 THEN RZero ELSE Rat(wins, trades)]

\* line 439 of run(): list_of_trades = self.__listTrades__(input["Strategy"])
ListTrades ==
    /\ pc = "done"
    /\ trade_list' = listTrades
    /\ pc' = "listed"
    /\ UNCHANGED <<variant, closes, offset, init_equity, equity, debt, position,
                   stop, row, atRowStart, updated, afterExit, results>>
    /\ UNCHANGED <<trade_count, drawdown_max>>
    /\ UNCHANGED <<runVars, ddVars, saVars, apVars, rerunVars, gradVars, otherVars>>

\* line 471 of run(), for a bin of the analysis
CountTrades ==
    /\ pc = "listed"
    /\ \E lo \in 0..Len(closes) : \E hi \in (lo + 1)..Len(closes) :
          trade_count' = countTrades(trade_list, <<lo, hi>>)
    /\ pc' = "counted"
    /\ UNCHANGED <<variant, closes, offset, init_equity, equity, debt, position,
                   stop, row, atRowStart, updated, afterExit, results>>
    /\ UNCHANGED <<trade_list, drawdown_max>>
    /\ UNCHANGED <<runVars, ddVars, saVars, apVars, rerunVars, gradVars, otherVars>>

TradesNext == TSNext \/ ListTrades \/ CountTrades

SpecTrades == TSInit /\ [][TradesNext]_vars

\* the rows on which the strategy entered a position: the position after the
\* row is not Flat and is not the one held before the row (Flat before the
\* first computed row)
EntryRows ==
    {r \in offset..(Len(closes) - 1) :
        /\ PositionAt(r) # 0
        /\ r > offset => PositionAt(r - 1) # PositionAt(r)}

(***************************************************************************)
(* C28: every entry into a position, that of the first computed row        *)
(* included, counts as one trade of the bin that contains its date; the    *)
(* wins are among the trades and the win ratio is wins/trades, or 0        *)
(* without a trade.                                                        *)
(***************************************************************************)
C28_EveryEntryCounted ==
    pc = "counted" =>
        /\ trade_count.trades
              = Cardinality({r \in EntryRows :
                               /\ DateAt(r) >= trade_count.bin_limits[1]
                               /\ DateAt(r) < trade_count.bin_limits[2]})
        /\ 0 <= trade_count.wins
        /\ trade_count.wins <= trade_count.trades
        /\ trade_count.win_ratio
              = IF trade_count.trades = 0 THEN RZero
                ELSE Rat(trade_count.wins, trade_count.trades)


(***************************************************************************)
(* __maxDrawdown__ (strategy.py), on the output of a Drawdowns analysis    *)
(* that has run: the columns Equity, Peak and Drawdown of drawdowns.       *)
(***************************************************************************)
\* the loop of __maxDrawdown__ from row r to the row before hi
RECURSIVE maxDrawdownFrom(_, _, _)
maxDrawdownFrom(r, hi, acc) ==
    IF r >= hi THEN acc
    ELSE LET eq == PyIndex(drawdowns, r)[1]
             pk == PyIndex(drawdowns, r)[2]
             dd == PyIndex(drawdowns, r)[3]
             pk_before == PyIndex(drawdowns, r - 1)[2]
             deepest == IF RLt(acc.max_drawdown, dd) THEN dd ELSE acc.max_drawdown
             counted == pk = pk_before /\ pk # eq
             period == IF counted THEN acc.period + 1 ELSE acc.period
             max_period == IF counted /\ period > acc.max_period THEN period
                           ELSE acc.max_period
         IN  maxDrawdownFrom(r + 1, hi,
                [max_drawdown |-> deepest, period |-> period, max_period |-> max_period])

\* __maxDrawdown__(input, row_limits)
maxDrawdown(row_limits_) ==
    LET acc == maxDrawdownFrom(row_limits_[1], row_limits_[2],
                   [max_drawdown |-> RZero, period |-> 0, max_period |-> 0])
    IN  [row_limits |-> row_limits_, max_drawdown |-> acc.max_drawdown,
         max_period |-> acc.max_period]

\* line 476 of strategyAnalysis.run, for the rows of a bin
MaxDrawdown ==
    /\ dd_status = "finished"
    /\ drawdowns # <<>>
    /\ \E lo \in 0..(Len(drawdowns) - 1) : \E hi \in lo..Len(drawdowns) :
          drawdown_max' = maxDrawdown(<<lo, hi>>)
    /\ dd_status' = "analysed"
    /\ UNCHANGED <<input_equity, peak, dd_row, drawdowns>>
    /\ UNCHANGED <<trade_list, trade_count>>
    /\ UNCHANGED <<tsVars, runVars, saVars, apVars, rerunVars, gradVars, otherVars>>

MaxDrawdownNext == DDNext \/ MaxDrawdown

SpecMaxDrawdown == DDInit /\ [][MaxDrawdownNext]_vars

\* the number of rows of the bin below the peak, up to and with row r, since
\* the last row on which the Equity set a new peak
RECURSIVE Underwater(_, _)
Underwater(r, lo) ==
    IF r < lo \/ PyIndex(drawdowns, r)[2] # PeakBefore(r + 1) THEN 0
    ELSE (IF PyIndex(drawdowns, r)[1] # PyIndex(drawdowns, r)[2] THEN 1 ELSE 0)
         + Underwater(r - 1, lo)

(***************************************************************************)
(* C29: __maxDrawdown__ returns the largest Drawdown of the rows of the    *)
(* bin and the length of the longest uninterrupted stretch of rows below   *)
(* the running peak: the count starts again from 0 at every new peak.      *)
(***************************************************************************)
C29_LongestStretch ==
    dd_status = "analysed" =>
        LET lo == drawdown_max.row_limits[1]
            hi == drawdown_max.row_limits[2]
            rows == lo..(hi - 1)
        IN  /\ \A r \in rows : ~ RLt(drawdown_max.max_drawdown, PyIndex(drawdowns, r)[3])
            /\ \/ drawdown_max.max_drawdown = RZero
               \/ \E r \in rows : drawdown_max.max_drawdown = PyIndex(drawdowns, r)[3]
            /\ drawdown_max.max_period = SetMax({Underwater(r, lo) : r \in rows})


(***************************************************************************)
(* C30: the rows of the bins, each the half-open range between the two     *)
(* rows found for its edges, contain every analysed row once: the range    *)
(* of the first bin starts at the first computed row and that of the last  *)
(* bin contains the final row, for the output of the strategy, of          *)
(* Drawdowns and of Returns alike.                                         *)
(***************************************************************************)
C30_BinsCoverEveryRow ==
    (sa_pc = "analyse" /\ Len(row_limits) = NumCalls) =>
        \A c \in {0, 2, 4} :
            LET dates == sa_input[CallDataset(c)]
                lo == row_limits[c + 1]
                hi == row_limits[c + 2]
            IN  /\ bin = 0 => lo = AnalysisOffset(CallDataset(c))
                /\ lo <= hi
                /\ bin = Len(low_bin_edges) - 2 =>
                      (Len(dates) - 1) \in lo..(hi - 1)


(***************************************************************************)
(* DualMA, TripleMA and TurtlesSystemTwo (portfolio/strategy.py), row by   *)
(* row.  The cells of the preliminaries on a row are an input of the row:  *)
(* for the moving-average systems the EWMA of each window of ma_lookback   *)
(* (newest first); for the Turtle system the cells of mmax, mmin and atr.  *)
(***************************************************************************)
\* the number of rows from the offset on
NSystemRows == 2
\* min_lookback, max_lookback and atr_lookback of the Turtle system: its offset
ChannelLookback == 5
\* atr_stop
AtrStop == 2

Systems == {"DualMA", "TripleMA", "TurtlesSystemTwo"}
MAValues == {RInt(1), RInt(2), RInt(3)}
AtrValues == {Rat(1, 2), RInt(1)}

\* the cells a row can hold: the lowest low of a channel is not above its
\* highest high
Cells(v) ==
    CASE v = "DualMA" -> MAValues \X MAValues
      [] v = "TripleMA" -> MAValues \X MAValues \X MAValues
      [] v = "TurtlesSystemTwo" ->
            {c \in MAValues \X MAValues \X AtrValues : ~ RLt(c[1], c[2])}

SystemInit ==
    /\ variant \in Systems
    /\ offset = IF variant = "TurtlesSystemTwo" THEN ChannelLookback ELSE SeedLength
    /\ closes \in {[k \in 1..(offset + NSystemRows) |->
                       IF k < offset THEN 1 ELSE cl[k - offset + 1]] :
                     cl \in [1..(NSystemRows + 1) -> 1..MaxClose]}
    /\ init_equity = RInt(DefaultEquity)
    /\ equity = init_equity
    /\ debt = RZero
    /\ position = 0
    /\ stop = RZero
    /\ row = offset
    /\ pc = "rows"
    /\ atRowStart = [position |-> 0, equity |-> init_equity, debt |-> RZero]
    /\ updated = init_equity
    /\ afterExit = 0
    /\ results = <<>>
    /\ pre_cells = <<>>
    /\ RunIdle
    /\ DDIdle
    /\ SAIdle
    /\ APIdle
    /\ RerunIdle
    /\ GradIdle
    /\ BinIdle
    /\ DefaultIdle
    /\ SortinoIdle

\* a slip: TripleMA enters on the two newer averages alone
systemGoLongUnfiltered(v, c, close) ==
    CASE v = "DualMA" -> RLt(c[2], c[1])
      [] v = "TripleMA" -> RLt(c[2], c[1])
      [] v = "TurtlesSystemTwo" -> RLt(c[1], close)

\* __goLong__: DualMA ma_newer > ma_older; TripleMA enter and filter;
\* TurtlesSystemTwo close > mmax
systemGoLong(v, c, close) ==
    CASE v = "DualMA" -> RLt(c[2], c[1])
      [] v = "TripleMA" -> RLt(c[2], c[1]) /\ (RLt(c[3], c[1]) /\ RLt(c[3], c[2]))
      [] v = "TurtlesSystemTwo" -> RLt(c[1], close)

\* __goShort__: the same with "<"; TurtlesSystemTwo close < mmin
systemGoShort(v, c, close) ==
    CASE v = "DualMA" -> RLt(c[1], c[2])
      [] v = "TripleMA" -> RLt(c[1], c[2]) /\ (RLt(c[1], c[3]) /\ RLt(c[2], c[3]))
      [] v = "TurtlesSystemTwo" -> RLt(close, c[2])

\* a slip: DualMA never closes a Long position, the Turtle system closes it
\* at the stop already
systemExitLongLate(v, c, close, stop_) ==
    CASE v = "DualMA" -> FALSE
      [] v = "TripleMA" -> RLt(c[1], c[2]) \/ (RLt(c[1], c[3]) \/ RLt(c[2], c[3]))
      [] v = "TurtlesSystemTwo" -> ~ RLt(stop_, close)

\* __exitLong__: DualMA __goShort__; TripleMA exit or filter;
\* TurtlesSystemTwo close < self.__stop__
systemExitLong(v, c, close, stop_) ==
    CASE v = "DualMA" -> systemGoShort(v, c, close)
      [] v = "TripleMA" -> RLt(c[1], c[2]) \/ (RLt(c[1], c[3]) \/ RLt(c[2], c[3]))
      [] v = "TurtlesSystemTwo" -> RLt(close, stop_)

\* __exitShort__
systemExitShort(v, c, close, stop_) ==
    CASE v = "DualMA" -> systemGoLong(v, c, close)
      [] v = "TripleMA" -> RLt(c[2], c[1]) \/ (RLt(c[3], c[1]) \/ RLt(c[3], c[2]))
      [] v = "TurtlesSystemTwo" -> RLt(stop_, close)

\* __setLongStop__ and __setShortStop__: close -/+ atr*self.atr_stop for the
\* Turtle system, 0.0 of the base class for the others
systemSetLongStop(v, c, close) ==
    IF v = "TurtlesSystemTwo" THEN RSub(close, RMul(c[3], RInt(AtrStop))) ELSE RZero
systemSetShortStop(v, c, close) ==
    IF v = "TurtlesSystemTwo" THEN RAdd(close, RMul(c[3], RInt(AtrStop))) ELSE RZero

\* one call of tradingSystem.__calculation__ on one of the three systems
SystemCalculation ==
    /\ variant \in Systems
    /\ pc = "rows"
    /\ row < Len(closes)
    /\ \E c \in Cells(variant) :
          LET close == RInt(PyIndex(closes, row))
              e == UpdatedEquity(equity, position, PyIndex(closes, row),
                                 PyIndex(closes, row - 1))
              equity2 == IF Insolvent(e) THEN init_equity ELSE e
              debt2 == IF Insolvent(e)
                       THEN RAdd(RAdd(debt, RMul(RInt(-1), e)), init_equity)
                       ELSE debt
              exited == CASE position = 1 ->
                               IF systemExitLong(variant, c, close, stop) THEN 0 ELSE 1
                          [] position = -1 ->
                               IF systemExitShort(variant, c, close, stop) THEN 0 ELSE -1
                          [] OTHER -> position
              entered == IF exited # 0 THEN exited
                         ELSE IF systemGoLong(variant, c, close) THEN 1
                         ELSE IF systemGoShort(variant, c, close) THEN -1
                         ELSE 0
          IN  /\ equity' = equity2
              /\ debt' = debt2
              /\ updated' = e
              /\ atRowStart' = [position |-> position, equity |-> equity, debt |-> debt]
              /\ position' = entered
              /\ stop' = IF exited = 0 /\ entered = 1
                         THEN systemSetLongStop(variant, c, close)
                         ELSE IF exited = 0 /\ entered = -1
                         THEN systemSetShortStop(variant, c, close)
                         ELSE stop
              /\ afterExit' = exited
              /\ results' = Append(results, <<entered, equity2, debt2>>)
              /\ pre_cells' = c
              /\ row' = row + 1
              /\ pc' = IF row + 1 < Len(closes) THEN "rows" ELSE "done"
    /\ UNCHANGED <<variant, closes, offset, init_equity>>
    /\ UNCHANGED <<runVars, ddVars, saVars, apVars, rerunVars, gradVars, binVars,
                   defaultVars, sortinoVars>>

SystemNext == SystemCalculation

SpecSystems == SystemInit /\ [][SystemNext]_vars

(***************************************************************************)
(* C31: TripleMA enters Long only on a row with newest > middle > oldest   *)
(* and Short only with newest < middle < oldest; after any row a Long      *)
(* position implies newest >= middle >= oldest on that row and a Short     *)
(* one newest <= middle <= oldest.                                         *)
(***************************************************************************)
C31_TripleOrdering ==
    (variant = "TripleMA" /\ results # <<>>) =>
        LET ma_newest == pre_cells[1]
            ma_middle == pre_cells[2]
            ma_oldest == pre_cells[3]
        IN  /\ (afterExit = 0 /\ position = 1) =>
                  RLt(ma_middle, ma_newest) /\ RLt(ma_oldest, ma_middle)
            /\ (afterExit = 0 /\ position = -1) =>
                  RLt(ma_newest, ma_middle) /\ RLt(ma_middle, ma_oldest)
            /\ position = 1 => ~ RLt(ma_newest, ma_middle) /\ ~ RLt(ma_middle, ma_oldest)
            /\ position = -1 => ~ RLt(ma_middle, ma_newest) /\ ~ RLt(ma_oldest, ma_middle)

\* a Long position entered on an earlier row is kept on a row where the
\* three averages are equal
C31_Witness ==
    /\ variant = "TripleMA"
    /\ Len(results) >= 2
    /\ atRowStart.position = 1
    /\ afterExit = 1
    /\ position = 1
    /\ pre_cells[1] = pre_cells[2]
    /\ pre_cells[2] = pre_cells[3]


(***************************************************************************)
(* C32: TurtlesSystemTwo closes a Long only on a row whose close is        *)
(* strictly below the stop held at the start of the row and a Short only   *)
(* on a row whose close is strictly above it; the stop is written only on  *)
(* a row where a position is entered, as that row's close minus (Long) or  *)
(* plus (Short) atr_stop times that row's N, and is unchanged on every     *)
(* other row, so the stop compared on an exit is the one of the entry row. *)
(***************************************************************************)
C32_TurtleStop ==
    [][ (variant = "TurtlesSystemTwo" /\ pc = "rows") =>
          LET close == RInt(PyIndex(closes, row))
              atr == pre_cells'[3]
              entry == afterExit' = 0 /\ position' # 0
          IN  /\ (position = 1 /\ afterExit' = 0) => RLt(close, stop)
              /\ (position = -1 /\ afterExit' = 0) => RLt(stop, close)
              /\ (entry /\ position' = 1) =>
                    stop' = RSub(close, RMul(RInt(AtrStop), atr))
              /\ (entry /\ position' = -1) =>
                    stop' = RAdd(close, RMul(RInt(AtrStop), atr))
              /\ ~ entry => stop' = stop ]_vars

C32_Witness ==
    /\ variant = "TurtlesSystemTwo"
    /\ Len(results) >= 2
    /\ atRowStart.position = 1
    /\ afterExit = 0
    /\ position = 0
    /\ results[Len(results) - 1][1] = 1


(***************************************************************************)
(* C34: after every computed row of a DualMA on which the two averages     *)
(* differ the position is the sign of newer minus older, reached within    *)
(* that row even from the opposite position; on a row where they are equal *)
(* the position is the one the row started with; so once a position is     *)
(* held no later row is Flat.                                              *)
(***************************************************************************)
C34_DualSign ==
    (variant = "DualMA" /\ results # <<>>) =>
        LET ma_newer == pre_cells[1]
            ma_older == pre_cells[2]
        IN  /\ RLt(ma_older, ma_newer) => position = 1
            /\ RLt(ma_newer, ma_older) => position = -1
            /\ ma_newer = ma_older => position = atRowStart.position
            /\ \A k \in 1..(Len(results) - 1) :
                  results[k][1] # 0 => results[k + 1][1] # 0

C34_Witness ==
    /\ variant = "DualMA"
    /\ Len(results) >= 2
    /\ atRowStart.position = -1
    /\ afterExit = 0
    /\ position = 1
    /\ RLt(pre_cells[2], pre_cells[1])


(***************************************************************************)
(* One call of strategyAnalysis.__SortinoRatio__ (strategy.py) on the      *)
(* Return cells of the rows of a bin.                                      *)
(***************************************************************************)
\* the most rows of a bin
NSortino == 3
\* the monthly returns of a row
SortinoReturns == {Rat(-2, 10), Rat(-1, 10), RZero, Rat(1, 10)}

SortinoInit ==
    /\ sortino_returns \in UNION {[1..n -> SortinoReturns] : n \in 1..NSortino}
    /\ sortino_ratio = None
    /\ TSIdle
    /\ RunIdle
    /\ DDIdle
    /\ SAIdle
    /\ APIdle
    /\ RerunIdle
    /\ GradIdle
    /\ BinIdle
    /\ CellIdle
    /\ DefaultIdle

\* __SortinoRatio__, lines 402-412: the mean of __meanSdevReturns__ called
\* with three arguments, so with flavour "Plain", and the deviation of
\* __downsideSdevReturns__, sqrt(12.0*var_x), kept as its square
SortinoRatioCall ==
    /\ sortino_returns # <<>>
    /\ sortino_ratio = None
    /\ LET x == sortino_returns
           ms == meanSdevReturns(Flavoured(x, x, "Plain"))
       IN  sortino_ratio' =
              IF ms.err # "none"
              THEN [err |-> ms.err, mean |-> RZero, var |-> RZero, cell |-> NaN]
              ELSE [err |-> "none",
                    mean |-> RMul(RInt(12), ms.mean),
                    var |-> RMul(RInt(12), downsideVar(x)),
                    cell |-> SortinoRatio(x).cell]
    /\ UNCHANGED sortino_returns
    /\ UNCHANGED <<tsVars, runVars, ddVars, saVars, apVars, rerunVars, gradVars,
                   binVars, cellVars, defaultVars>>

SortinoNext == SortinoRatioCall

SpecSortino == SortinoInit /\ [][SortinoNext]_vars

\* the annualised variance of the negative returns of x, each less the risk
\* free rate, about their own mean, over their own number less one
DownsideOnlyVar(x) ==
    LET down == SelectSeq(x, LAMBDA v : RLt(v, RZero))
        n == Len(down)
        xs == [k \in 1..n |-> RSub(down[k], monthly_risk_free_rate)]
        mean_x == IF n < 1 THEN RZero ELSE RDiv(RSum(xs), RInt(n))
        res_xx == RSum([k \in 1..n |-> RMul(RSub(xs[k], mean_x), RSub(xs[k], mean_x))])
    IN  IF n < 2 THEN RZero ELSE RMul(RInt(12), RDiv(res_xx, RInt(n - 1)))

(***************************************************************************)
(* C33: the Sortino ratio of a bin divides the annualised mean of the      *)
(* monthly returns in excess of the risk free rate by a deviation whose    *)
(* sample count, mean and squared residuals are all taken over the rows    *)
(* with a negative return; it is undefined exactly where that deviation    *)
(* is zero.                                                                *)
(***************************************************************************)
C33_SortinoDownside ==
    (sortino_ratio # None /\ sortino_ratio.err = "none") =>
        LET x == sortino_returns
            n == Len(x)
            excess == [k \in 1..n |-> RSub(x[k], monthly_risk_free_rate)]
        IN  /\ sortino_ratio.var = DownsideOnlyVar(x)
            /\ sortino_ratio.mean = RMul(RInt(12), RDiv(RSum(excess), RInt(n)))
            /\ sortino_ratio.cell = NaN <=> DownsideOnlyVar(x) = RZero


(***************************************************************************)
(* C35: the closes being positive, the debt never decreases from one row   *)
(* to the next, and it increases only on a row that starts Short and whose *)
(* close is more than twice the previous close; a system that is Short on  *)
(* no row ends with the debt 0.                                            *)
(***************************************************************************)
C35_DebtOnlyGrowsShort ==
    RowDone =>
        /\ \A k \in 1..(Len(results) - 1) : ~ RLt(results[k + 1][3], results[k][3])
        /\ ~ RLt(LastRow[3], atRowStart.debt)
        /\ LastRow[3] # atRowStart.debt =>
              /\ atRowStart.position = -1
              /\ DoneClose > 2 * DonePreviousClose
        /\ (\A k \in 1..Len(results) : results[k][1] # -1) => debt = RZero

\* a Short row whose close is three times the previous one has added to the debt
C35_Witness ==
    /\ RowDone
    /\ atRowStart.position = -1
    /\ DoneClose > 2 * DonePreviousClose
    /\ RLt(atRowStart.debt, debt)

(***************************************************************************)
(* C36: on a row where the updated equity is exactly 0 (a Short row whose  *)
(* close is exactly twice the previous close) no debt is injected and the  *)
(* equity stays 0; on every later row the equity is still 0 and the debt   *)
(* is unchanged.                                                           *)
(***************************************************************************)
C36_ZeroEquityAbsorbs ==
    RowDone =>
        /\ updated = RZero => (LastRow[2] = RZero /\ LastRow[3] = atRowStart.debt)
        /\ (atRowStart.position = -1 /\ DoneClose = 2 * DonePreviousClose) =>
              (LastRow[2] = RZero /\ LastRow[3] = atRowStart.debt)
        /\ \A k \in 1..(Len(results) - 1) :
              results[k][2] = RZero =>
                  /\ results[k + 1][2] = RZero
                  /\ results[k + 1][3] = results[k][3]

\* the equity fell to 0 on a Short row; the next row, Short again and with
\* another close, has left it 0
C36_Witness ==
    /\ RowDone
    /\ Len(results) >= 2
    /\ results[Len(results) - 1][2] = RZero
    /\ atRowStart.position = -1
    /\ DoneClose # DonePreviousClose
    /\ equity = RZero


(***************************************************************************)
(* C37: whatever the Position column, the entry and exit lists of          *)
(* __listTrades__ have the same length and the k-th exit belongs to the    *)
(* k-th entry: its row is later than the entry's row and not later than    *)
(* the next entry's row, the position is held unchanged from the entry     *)
(* row to the row before the exit row, and only the last exit may be       *)
(* "TBC".                                                                  *)
(***************************************************************************)
C37_TradesPaired ==
    pc \in {"listed", "counted"} =>
        LET t == trade_list
            n == Len(t.entry_date)
        IN  /\ Len(t.entry_equity) = n
            /\ Len(t.exit_date) = n
            /\ Len(t.exit_equity) = n
            /\ \A k \in 1..n :
                  IF t.exit_equity[k] = TBC
                  THEN /\ k = n
                       /\ t.exit_date[k] = TBC
                       /\ \A r \in t.entry_date[k]..(Len(closes) - 1) :
                             PositionAt(r) = PositionAt(t.entry_date[k])
                  ELSE /\ t.exit_date[k] > t.entry_date[k]
                       /\ k < n => t.exit_date[k] <= t.entry_date[k + 1]
                       /\ \A r \in t.entry_date[k]..(t.exit_date[k] - 1) :
                             PositionAt(r) = PositionAt(t.entry_date[k])
                       /\ PositionAt(t.exit_date[k]) # PositionAt(t.entry_date[k])
                       /\ t.exit_equity[k] = EquityAt(t.exit_date[k])
            /\ \A k \in 1..n :
                  /\ PositionAt(t.entry_date[k]) # 0
                  /\ t.entry_equity[k] = EquityAt(t.entry_date[k])

\* an unlisted position of the first computed row, then a trade closed on the
\* row where the next, still open, one is entered
C37_Witness ==
    /\ pc = "listed"
    /\ PositionAt(offset) # 0
    /\ Len(trade_list.entry_date) = 2
    /\ trade_list.exit_date[1] = trade_list.entry_date[2]
    /\ trade_list.exit_equity[2] = TBC


(***************************************************************************)
(* C39: the exit tests of GradSig and GradConf read |grad/gerr| alone: a   *)
(* row that starts Long or Short keeps its position exactly when gerr is   *)
(* not 0 and |grad/gerr| exceeds the threshold, whatever the sign of grad, *)
(* so a Long position is kept on a row whose significant gradient is       *)
(* negative and a Short one on a row whose significant gradient is         *)
(* positive.                                                               *)
(***************************************************************************)
C39_ExitIgnoresSign ==
    (variant \in {"GradSig", "GradConf"} /\ results # <<>> /\ atRowStart.position # 0) =>
        LET grad == PyIndex(grad_column, row - 1)
            gerr == PyIndex(gerr_column, row - 1)
            significant == gerr # RZero /\ RLt(threshold, RDiv(RAbs(grad), RAbs(gerr)))
        IN  /\ significant => (afterExit = atRowStart.position /\ position = atRowStart.position)
            /\ ~ significant => afterExit = 0

\* Long after a row whose gradient is negative and significant
C39_Witness ==
    /\ variant = "GradSig"
    /\ results # <<>>
    /\ atRowStart.position = 1
    /\ position = 1
    /\ PyIndex(grad_column, row - 1) = RInt(-1)
    /\ PyIndex(gerr_column, row - 1) # RZero
    /\ RLt(threshold, RDiv(RInt(1), PyIndex(gerr_column, row - 1)))


(***************************************************************************)
(* The analysis_period lists of indicators of one class (timeseries.py     *)
(* 32-34 and 73-86, price.py 32): the list of the default argument is made *)
(* once, when the def statement runs, and __setAnalysisPeriod__ assigns    *)
(* into the list it is given and returns that list, so self.analysis_period*)
(* is the list object itself.  A day is a number, as in stored_dates.      *)
(***************************************************************************)
\* the most indicators built
MaxBuilt == 2
\* __long_ago__, a day before every stored day
long_ago == 0
\* datetime.date.today() when the class is defined, a day after every stored day
today == MaxDay + 1

\* the list objects: that of the default argument and one of the caller
ListObjects == {"default", "caller"}

DefaultsInit ==
    /\ \E lo \in long_ago..today : \E hi \in lo..today :
          period_lists = [default |-> <<long_ago, today>>, caller |-> <<lo, hi>>]
    /\ built_on = <<>>
    /\ TSIdle
    /\ RunIdle
    /\ DDIdle
    /\ SAIdle
    /\ APIdle
    /\ RerunIdle
    /\ GradIdle
    /\ BinIdle
    /\ CellIdle
    /\ SortinoIdle

\* the analysis_period of the k-th indicator built: the list it holds
analysisPeriodOf(k) == period_lists[built_on[k].list]

\* MA(input_data) or MA(input_data, analysis_period): line 53 of __init__,
\* self.analysis_period = self.__setAnalysisPeriod__(analysis_period), on
\* the list object given; lines 80-84 assign into that object
BuildIndicator ==
    /\ period_lists # <<>>
    /\ Len(built_on) < MaxBuilt
    /\ \E dates \in StoredDateColumns, given \in ListObjects :
          LET input_data_period == getStoredPeriod(dates)
              clamped == setAnalysisPeriod(period_lists[given], input_data_period)
          IN  /\ period_lists' = [period_lists EXCEPT ![given] = clamped]
              /\ built_on' = Append(built_on,
                                [stored |-> input_data_period, list |-> given,
                                 asked |-> period_lists[given], held |-> clamped])
    /\ UNCHANGED <<tsVars, runVars, ddVars, saVars, apVars, rerunVars, gradVars,
                   binVars, cellVars, sortinoVars>>

DefaultsNext == BuildIndicator

SpecDefaults == DefaultsInit /\ [][DefaultsNext]_vars

(***************************************************************************)
(* C38: an indicator built with the default period argument has the whole  *)
(* stored period of its own input data as its analysis period, whatever    *)
(* was built before it; and building an indicator changes neither the      *)
(* analysis period an earlier indicator holds nor the period the caller    *)
(* passed.                                                                 *)
(***************************************************************************)
C38_DefaultPeriodOwnData ==
    \A k \in 1..Len(built_on) :
        /\ built_on[k].list = "default" => analysisPeriodOf(k) = built_on[k].stored
        /\ analysisPeriodOf(k) = built_on[k].held
        /\ built_on[k].list = "caller" => period_lists.caller = built_on[k].asked

====
